---- MODULE Spec2Model ----
(***************************************************************************)
(* BPAK package facade: open / write_header / hash / sign / add_file over  *)
(* a random-access archive stream.                                         *)
(*                                                                         *)
(* The archive stream is a sequence of cells.  Block cells stand for 4096  *)
(* bytes, which is both sizeof(struct bpak_header) and BPAK_PART_ALIGN.    *)
(* A cell is a record [b, h]: b is the byte value, h is the header content *)
(* carried by the cell.  A header image is Block cells: the first carries  *)
(* the header fields, the others are its reserved bytes.  h is <<>> for    *)
(* the all-zero header content (every payload byte) and <<core>> for any   *)
(* other content.                                                          *)
(***************************************************************************)
EXTENDS Integers, Sequences, FiniteSets, TLC

\* ---- bounds of the model ----------------------------------------------
Block == 2
N_PARTS == 2
N_META == 2
SigSlot == 2
MaxOps == 4
SigSzMod == 4           \* stands for 2^16, the range of signature_sz

\* ---- program constants ------------------------------------------------
BPAK_HASH_SHA256 == 1
BPAK_HASH_SHA384 == 2
BPAK_HASH_SHA512 == 3
SHA256_LEN == 32
SHA384_LEN == 48
SHA512_LEN == 64
PAYLOAD_HASH_FIELD == 64

sizeof_header == Block
BPAK_PART_ALIGN == Block

BPAK_FLAG_TRANSPORT == "TRANSPORT"
BPAK_FLAG_EXCLUDE_FROM_HASH == "EXCLUDE_FROM_HASH"
BPAK_HEADER_POS_FIRST == "FIRST"
BPAK_HEADER_POS_LAST == "LAST"
BPAK_HEADER_MAGIC == "BPAK"

\* ---- generic helpers --------------------------------------------------
Min(a, b) == IF a < b THEN a ELSE b

Zeros(n) == [i \in 1..n |-> 0]

RECURSIVE SumSeq(_)
SumSeq(s) == IF s = <<>> THEN 0 ELSE Head(s) + SumSeq(Tail(s))

\* ---- header object ----------------------------------------------------
EmptyPart ==
    [id |-> 0, size |-> 0, offset |-> 0, transport_size |-> 0,
     pad_bytes |-> 0, flags |-> {}]

EmptyMeta == [id |-> "", part_id_ref |-> 0, size |-> 0, data |-> <<>>]

ZeroDigest == [kind |-> 0, data |-> <<>>]

\* memset(&header, 0, sizeof(header))
ZeroCore ==
    [magic |-> "", hash_kind |-> 0, signature_kind |-> "",
     payload_hash |-> ZeroDigest,
     signature |-> Zeros(SigSlot), signature_sz |-> 0,
     key_id |-> 0, keystore_id |-> 0,
     meta |-> [i \in 1..N_META |-> EmptyMeta],
     parts |-> [i \in 1..N_PARTS |-> EmptyPart]]

ZeroCell == [b |-> 0, h |-> <<>>]

ByteCell(v) == [b |-> v, h |-> <<>>]

\* The header content a cell carries, and the cell content of a header
CoreOf(cell) == IF cell.h = <<>> THEN ZeroCore ELSE cell.h[1]

CellContent(core) == IF core = ZeroCore THEN <<>> ELSE <<core>>

Bytes(s) == [i \in 1..Len(s) |-> ByteCell(s[i])]

\* The in-memory header: the header fields plus the raw bytes of the image.
ZeroHeader == [core |-> ZeroCore, raw |-> Zeros(Block)]

\* The header as the Block cells of its image (the struct is the image).
HeaderImage(hdr) ==
    [i \in 1..Block |->
        [b |-> hdr.raw[i],
         h |-> IF i = 1 THEN CellContent(hdr.core) ELSE <<>>]]

\* fread(&pkg->header, 1, n, fp) into a header that held `old`: the cells
\* read replace the leading cells of the image, the rest keep their value.
HeaderFromCells(old, cells) ==
    LET img == HeaderImage(old)
        new == [i \in 1..Block |-> IF i <= Len(cells) THEN cells[i] ELSE img[i]]
    IN  [core |-> CoreOf(new[1]), raw |-> [i \in 1..Block |-> new[i].b]]

\* bpak_valid_header: magic, recognized hash kind
bpak_valid_header(hdr) ==
    IF hdr.core.magic # BPAK_HEADER_MAGIC THEN "BPAK_BAD_MAGIC"
    ELSE IF hdr.core.hash_kind \notin
            {BPAK_HASH_SHA256, BPAK_HASH_SHA384, BPAK_HASH_SHA512}
         THEN "BPAK_NOT_SUPPORTED"
    ELSE "BPAK_OK"

bpak_part_size(p) ==
    IF BPAK_FLAG_TRANSPORT \in p.flags THEN p.transport_size ELSE p.size

bpak_part_offset(p) == p.offset

\* ---- the stream (FILE *) ----------------------------------------------
\* fread of n cells at position pos: a short read at the end of the file.
ReadAt(f, pos, n) ==
    IF pos >= Len(f) THEN <<>>
    ELSE SubSeq(f, pos + 1, Min(pos + n, Len(f)))

\* fwrite of data at position pos: overwrites, extends, and zero-fills the
\* gap when pos lies beyond the end.
WriteAt(f, pos, data) ==
    LET n == IF pos + Len(data) > Len(f) THEN pos + Len(data) ELSE Len(f)
    IN  [i \in 1..n |->
            IF i > pos /\ i <= pos + Len(data) THEN data[i - pos]
            ELSE IF i <= Len(f) THEN f[i]
            ELSE ZeroCell]

\* fseek(fp, off, SEEK_END): the position is end + off
SeekEnd(f, off) == Len(f) + off

\* ---- package ----------------------------------------------------------
\* struct bpak_package after memset(pkg, 0, sizeof(*pkg)), no stream open
ClosedPkg ==
    [open |-> FALSE, header |-> ZeroHeader,
     header_location |-> BPAK_HEADER_POS_FIRST]

\* A package with a stream of its own, as transport takes for its input and
\* its origin; NullPkg is the NULL package pointer.
NullPkg == [null |-> TRUE, open |-> FALSE, header |-> ZeroHeader, fp |-> <<>>]

PkgOn(hdr, f) == [null |-> FALSE, open |-> TRUE, header |-> hdr, fp |-> f]

NoTransfer == [source |-> NullPkg, input |-> NullPkg, origin |-> NullPkg]

\* bpak_pkg_open with the tail candidate tried first (a mutant)
bpak_pkg_open_tail_first(f) ==
    LET first == ReadAt(f, 0, sizeof_header)
        h1 == HeaderFromCells(ZeroHeader, first)
        tailpos == IF Len(f) >= sizeof_header THEN Len(f) - sizeof_header ELSE 0
        last == ReadAt(f, tailpos, sizeof_header)
        h2 == HeaderFromCells(ZeroHeader, last)
    IN  IF Len(last) = sizeof_header /\ bpak_valid_header(h2) = "BPAK_OK"
        THEN [rc |-> "BPAK_OK", header |-> h2,
              header_location |-> BPAK_HEADER_POS_LAST, reads |-> <<tailpos>>]
        ELSE [rc |-> "BPAK_OK", header |-> h1,
              header_location |-> BPAK_HEADER_POS_FIRST, reads |-> <<tailpos, 0>>]

\* bpak_pkg_open: the result of opening stream f; reads are the positions
\* of the fread calls issued on the stream.
bpak_pkg_open(f) ==
    LET first == ReadAt(f, 0, sizeof_header)
        h1 == HeaderFromCells(ZeroHeader, first)
        tailpos == SeekEnd(f, sizeof_header)
        last == ReadAt(f, tailpos, sizeof_header)
        h2 == HeaderFromCells(h1, last)
    IN  IF Len(first) # sizeof_header
        THEN \* rc = -BPAK_READ_ERROR; goto skip_header
             [rc |-> "BPAK_OK", header |-> h1,
              header_location |-> BPAK_HEADER_POS_FIRST, reads |-> <<0>>]
        ELSE IF bpak_valid_header(h1) = "BPAK_OK"
        THEN [rc |-> "BPAK_OK", header |-> h1,
              header_location |-> BPAK_HEADER_POS_FIRST, reads |-> <<0>>]
        ELSE IF Len(last) # sizeof_header
        THEN \* rc = -BPAK_FAILED; goto skip_header
             [rc |-> "BPAK_OK", header |-> h2,
              header_location |-> BPAK_HEADER_POS_FIRST,
              reads |-> <<0, tailpos>>]
        ELSE IF bpak_valid_header(h2) # "BPAK_OK"
        THEN [rc |-> "BPAK_OK", header |-> h2,
              header_location |-> BPAK_HEADER_POS_FIRST,
              reads |-> <<0, tailpos>>]
        ELSE [rc |-> "BPAK_OK", header |-> h2,
              header_location |-> BPAK_HEADER_POS_LAST,
              reads |-> <<0, tailpos>>]

\* bpak_io_seek(io, off, BPAK_IO_SEEK_END): the position is end - off
bpak_io_seek_end(f, off) ==
    IF off > Len(f) THEN [rc |-> "BPAK_SEEK_ERROR", pos |-> 0]
    ELSE [rc |-> "BPAK_OK", pos |-> Len(f) - off]

\* bpak_pkg_open over struct bpak_io
bpak_pkg_open_io(f) ==
    LET first == ReadAt(f, 0, sizeof_header)
        h1 == HeaderFromCells(ZeroHeader, first)
        sk == bpak_io_seek_end(f, sizeof_header)
        last == ReadAt(f, sk.pos, sizeof_header)
        h2 == HeaderFromCells(h1, last)
    IN  IF Len(first) # sizeof_header
             \/ bpak_valid_header(h1) = "BPAK_OK"
             \/ sk.rc # "BPAK_OK"
        THEN [rc |-> "BPAK_OK", header |-> h1,
              header_location |-> BPAK_HEADER_POS_FIRST, reads |-> <<0>>]
        ELSE IF Len(last) # sizeof_header
                  \/ bpak_valid_header(h2) # "BPAK_OK"
        THEN [rc |-> "BPAK_OK", header |-> h2,
              header_location |-> BPAK_HEADER_POS_FIRST,
              reads |-> <<0, sk.pos>>]
        ELSE [rc |-> "BPAK_OK", header |-> h2,
              header_location |-> BPAK_HEADER_POS_LAST,
              reads |-> <<0, sk.pos>>]

\* ---- digests ----------------------------------------------------------
\* The digest of a byte sequence is the hash kind and the sequence itself:
\* an injective hash.
DigestLen(kind) ==
    CASE kind = BPAK_HASH_SHA256 -> SHA256_LEN
      [] kind = BPAK_HASH_SHA384 -> SHA384_LEN
      [] kind = BPAK_HASH_SHA512 -> SHA512_LEN
      [] OTHER -> 0

\* What hash_buffer holds where bpak_io_read delivered no byte.
StaleCell == [b |-> -1, h |-> <<>>]

\* The part loop of bpak_pkg_compute_payload_hash from slot i on, the
\* stream position being pos: the cells fed to the digest.
RECURSIVE FeedParts(_, _, _, _)
FeedParts(parts, i, pos, f) ==
    IF i > N_PARTS THEN <<>>
    ELSE LET p == parts[i]
             n == bpak_part_size(p)
             got == ReadAt(f, pos, n)
         IN  IF p.id = 0 THEN FeedParts(parts, i + 1, pos, f)
             ELSE IF BPAK_FLAG_EXCLUDE_FROM_HASH \in p.flags
             THEN FeedParts(parts, i + 1, pos + n, f)
             ELSE got \o [k \in 1..(n - Len(got)) |-> StaleCell]
                      \o FeedParts(parts, i + 1, pos + Len(got), f)

\* bpak_pkg_compute_payload_hash(pkg, output, &size): rc, the size
\* reported and the digest written to output (out = FALSE: not written).
bpak_pkg_compute_payload_hash(p, f, size) ==
    LET kind == p.header.core.hash_kind
        start == IF p.header_location = BPAK_HEADER_POS_FIRST
                 THEN sizeof_header ELSE 0
    IN  IF DigestLen(kind) = 0
        THEN [rc |-> "BPAK_NOT_SUPPORTED", size |-> size, out |-> FALSE,
              digest |-> ZeroDigest]
        ELSE IF size < DigestLen(kind)
        THEN [rc |-> "BPAK_FAILED", size |-> size, out |-> FALSE,
              digest |-> ZeroDigest]
        ELSE [rc |-> "BPAK_OK", size |-> DigestLen(kind), out |-> TRUE,
              digest |-> [kind |-> kind,
                          data |-> FeedParts(p.header.core.parts, 1, start, f)]]

\* bpak_pkg_update_payload_hash: the header afterwards
bpak_pkg_update_payload_hash(p, f) ==
    LET r == bpak_pkg_compute_payload_hash(p, f, PAYLOAD_HASH_FIELD)
    IN  [rc |-> r.rc,
         header |-> IF r.out
                    THEN [p.header EXCEPT !.core.payload_hash = r.digest]
                    ELSE p.header]

\* The header with the signature slot and signature_sz zeroed
ZeroSignature(hdr) ==
    [hdr EXCEPT !.core.signature = Zeros(SigSlot), !.core.signature_sz = 0]

\* The header hash without zeroing the signature (a mutant)
HeaderDigest_keep_signature(hdr) ==
    [kind |-> hdr.core.hash_kind, data |-> hdr]

\* The digest of the header image as bpak_pkg_compute_header_hash feeds it
HeaderDigest(hdr) ==
    [kind |-> hdr.core.hash_kind, data |-> ZeroSignature(hdr)]

\* The header hash taken before the payload hash is refreshed (a mutant)
bpak_pkg_compute_header_hash_stale(p, f, size, update_payload_hash) ==
    LET u == bpak_pkg_update_payload_hash(p, f)
        h1 == IF update_payload_hash THEN u.header ELSE p.header
        kind == h1.core.hash_kind
    IN  IF update_payload_hash /\ u.rc # "BPAK_OK"
        THEN [rc |-> u.rc, size |-> size, out |-> FALSE,
              digest |-> ZeroDigest, header |-> p.header]
        ELSE IF DigestLen(kind) = 0
        THEN [rc |-> "BPAK_NOT_SUPPORTED", size |-> size, out |-> FALSE,
              digest |-> ZeroDigest, header |-> ZeroSignature(h1)]
        ELSE IF size < DigestLen(kind)
        THEN [rc |-> "BPAK_FAILED", size |-> size, out |-> FALSE,
              digest |-> ZeroDigest, header |-> ZeroSignature(h1)]
        ELSE [rc |-> "BPAK_OK", size |-> DigestLen(kind), out |-> TRUE,
              digest |-> HeaderDigest(p.header), header |-> h1]

\* bpak_pkg_compute_header_hash(pkg, output, &size, update_payload_hash):
\* rc, the size reported, the digest written and the header afterwards.
bpak_pkg_compute_header_hash(p, f, size, update_payload_hash) ==
    LET u == bpak_pkg_update_payload_hash(p, f)
        h1 == IF update_payload_hash THEN u.header ELSE p.header
        kind == h1.core.hash_kind
    IN  IF update_payload_hash /\ u.rc # "BPAK_OK"
        THEN [rc |-> u.rc, size |-> size, out |-> FALSE,
              digest |-> ZeroDigest, header |-> p.header]
        ELSE IF DigestLen(kind) = 0
        THEN \* default: return, the signature fields stay zeroed
             [rc |-> "BPAK_NOT_SUPPORTED", size |-> size, out |-> FALSE,
              digest |-> ZeroDigest, header |-> ZeroSignature(h1)]
        ELSE IF size < DigestLen(kind)
        THEN [rc |-> "BPAK_FAILED", size |-> size, out |-> FALSE,
              digest |-> ZeroDigest, header |-> ZeroSignature(h1)]
        ELSE [rc |-> "BPAK_OK", size |-> DigestLen(kind), out |-> TRUE,
              digest |-> HeaderDigest(h1), header |-> h1]

\* ---- header write-back ------------------------------------------------
\* The stream position bpak_pkg_write_header seeks to
HeaderWritePos(p, f) ==
    IF p.header_location = BPAK_HEADER_POS_FIRST THEN 0
    ELSE SeekEnd(f, sizeof_header)

\* bpak_pkg_write_header: rc, the stream afterwards and the writes issued
bpak_pkg_write_header(p, f, fault) ==
    IF fault = "seek"
    THEN [rc |-> "BPAK_SEEK_ERROR", fp |-> f, writes |-> <<>>]
    ELSE IF fault = "write"
    THEN [rc |-> "BPAK_WRITE_ERROR", fp |-> f, writes |-> <<>>]
    ELSE [rc |-> "BPAK_OK",
          fp |-> WriteAt(f, HeaderWritePos(p, f), HeaderImage(p.header)),
          writes |-> <<[what |-> "header", pos |-> HeaderWritePos(p, f),
                        len |-> sizeof_header, parts |-> p.header.core.parts]>>]

\* bpak_pkg_write_header over struct bpak_io: the seek of a LAST package
\* is bpak_io_seek(io, 4096, BPAK_IO_SEEK_END)
bpak_pkg_write_header_io(p, f) ==
    LET sk == IF p.header_location = BPAK_HEADER_POS_FIRST
              THEN [rc |-> "BPAK_OK", pos |-> 0]
              ELSE bpak_io_seek_end(f, sizeof_header)
    IN  IF sk.rc # "BPAK_OK"
        THEN [rc |-> sk.rc, fp |-> f, writes |-> <<>>]
        ELSE [rc |-> "BPAK_OK",
              fp |-> WriteAt(f, sk.pos, HeaderImage(p.header)),
              writes |-> <<[what |-> "header", pos |-> sk.pos,
                            len |-> sizeof_header,
                            parts |-> p.header.core.parts]>>]

\* memset(signature, 0, 512); memcpy(signature, sig, size): the slot
SignatureSlot(sig) ==
    [i \in 1..SigSlot |-> IF i <= Len(sig) THEN sig[i] ELSE 0]

\* The bytes memcpy puts past the end of the signature slot: with the field
\* order of the data model the first lands on signature_sz, the second on
\* keystore_id, the third on key_id.
SignatureOverflow(sig) ==
    IF Len(sig) > SigSlot THEN SubSeq(sig, SigSlot + 1, Len(sig)) ELSE <<>>

\* pkg->header after the memset, the memcpy and signature_sz = size
SignedHeader(hdr, sig) ==
    LET over == SignatureOverflow(sig)
    IN  [hdr EXCEPT !.core.signature = SignatureSlot(sig),
                    !.core.keystore_id = IF Len(over) >= 2 THEN over[2] ELSE @,
                    !.core.key_id = IF Len(over) >= 3 THEN over[3] ELSE @,
                    !.core.signature_sz = Len(sig) % SigSzMod]

\* bpak_pkg_write_raw_signature that leaves signature_sz alone (a mutant)
bpak_pkg_write_raw_signature_nosz(p, f, sig, fault) ==
    LET hdr == [p.header EXCEPT !.core.signature = SignatureSlot(sig)]
        w == bpak_pkg_write_header([p EXCEPT !.header = hdr], f, fault)
    IN  [rc |-> w.rc, header |-> hdr, fp |-> w.fp, writes |-> w.writes]

\* bpak_pkg_write_raw_signature: rc, the header, the stream, the writes
bpak_pkg_write_raw_signature(p, f, sig, fault) ==
    LET hdr == SignedHeader(p.header, sig)
        w == bpak_pkg_write_header([p EXCEPT !.header = hdr], f, fault)
    IN  [rc |-> w.rc, header |-> hdr, fp |-> w.fp, writes |-> w.writes]

\* ---- part and meta tables ---------------------------------------------
\* bpak_id(name): part names are 1, 2, ...; "<name>-hash-tree" is name + 10
bpak_id(name) == name

HashTreeName(name) == name + 10

LiveIds(hdr) == {hdr.core.parts[i].id : i \in 1..N_PARTS} \ {0}

FreeSlots(hdr) == {i \in 1..N_PARTS : hdr.core.parts[i].id = 0}

FirstFree(S) == CHOOSE i \in S : \A j \in S : i <= j

\* bpak_add_part without the test for a live slot carrying id (a mutant)
bpak_add_part_dup(hdr, id) ==
    IF FreeSlots(hdr) = {}
    THEN [rc |-> "BPAK_NO_SPACE", header |-> hdr, slot |-> 0]
    ELSE [rc |-> "BPAK_OK",
          header |-> [hdr EXCEPT !.core.parts[FirstFree(FreeSlots(hdr))].id = id],
          slot |-> FirstFree(FreeSlots(hdr))]

\* bpak_add_part(h, id, &p): rc, the header and the slot handed out
bpak_add_part(hdr, id) ==
    IF id \in LiveIds(hdr)
    THEN [rc |-> "BPAK_EXISTS", header |-> hdr, slot |-> 0]
    ELSE IF FreeSlots(hdr) = {}
    THEN [rc |-> "BPAK_NO_SPACE", header |-> hdr, slot |-> 0]
    ELSE [rc |-> "BPAK_OK",
          header |-> [hdr EXCEPT !.core.parts[FirstFree(FreeSlots(hdr))].id = id],
          slot |-> FirstFree(FreeSlots(hdr))]

FreeMeta(hdr) == {i \in 1..N_META : hdr.core.meta[i].id = ""}

\* bpak_add_meta(h, id, part_ref, &ptr, size) followed by the copy of data
bpak_add_meta(hdr, id, part_ref, data) ==
    IF FreeMeta(hdr) = {}
    THEN [rc |-> "BPAK_NO_SPACE", header |-> hdr]
    ELSE [rc |-> "BPAK_OK",
          header |-> [hdr EXCEPT !.core.meta[FirstFree(FreeMeta(hdr))] =
                        [id |-> id, part_id_ref |-> part_ref,
                         size |-> Len(data), data |-> data]]]

\* new_offset: sizeof(header) plus size + pad_bytes of every slot
NewOffset(hdr) ==
    sizeof_header
    + SumSeq([i \in 1..N_PARTS |->
                hdr.core.parts[i].size + hdr.core.parts[i].pad_bytes])

\* pad_bytes for a body of n cells
PadBytes(n) ==
    IF n % BPAK_PART_ALIGN # 0
    THEN BPAK_PART_ALIGN - (n % BPAK_PART_ALIGN)
    ELSE 0

NoParts == [i \in 1..N_PARTS |-> EmptyPart]

Write(what, pos, len) ==
    [what |-> what, pos |-> pos, len |-> len, parts |-> NoParts]

\* ---- bpak_pkg_add_file ------------------------------------------------
\* fault: the first call that fails ("none": none does).
\* Result: rc, the header, the stream and the writes issued on the stream.
bpak_pkg_add_file(p, f, name, content, flags, fault) ==
    LET a == bpak_add_part(p.header, bpak_id(name))
        off == NewOffset(p.header)
        pad == PadBytes(Len(content))
        hdr == [a.header EXCEPT !.core.parts[a.slot] =
                   [id |-> bpak_id(name), size |-> Len(content),
                    offset |-> off, transport_size |-> 0,
                    pad_bytes |-> pad, flags |-> flags]]
        f1 == WriteAt(f, off, Bytes(content))
        w1 == IF Len(content) > 0
              THEN <<Write("body", off, Len(content))>> ELSE <<>>
        f2 == IF pad > 0 THEN WriteAt(f1, off + Len(content), Bytes(Zeros(pad)))
              ELSE f1
        w2 == IF pad > 0
              THEN w1 \o <<Write("pad", off + Len(content), pad)>> ELSE w1
        u == bpak_pkg_update_payload_hash([p EXCEPT !.header = hdr], f2)
        w == bpak_pkg_write_header([p EXCEPT !.header = u.header], f2,
                                   IF fault = "write_header" THEN "write"
                                   ELSE "none")
    IN  IF fault = "stat"
        THEN [rc |-> "BPAK_FAILED", header |-> p.header, fp |-> f,
              writes |-> <<>>]
        ELSE IF a.rc # "BPAK_OK"
        THEN [rc |-> a.rc, header |-> p.header, fp |-> f, writes |-> <<>>]
        ELSE IF fault = "seek"
        THEN [rc |-> "BPAK_SEEK_ERROR", header |-> hdr, fp |-> f,
              writes |-> <<>>]
        ELSE IF fault = "fopen"
        THEN [rc |-> "BPAK_FAILED", header |-> hdr, fp |-> f,
              writes |-> <<>>]
        ELSE IF fault = "write_body"
        THEN [rc |-> "BPAK_WRITE_ERROR", header |-> hdr, fp |-> f,
              writes |-> <<>>]
        ELSE IF fault = "write_pad" /\ pad > 0
        THEN [rc |-> "BPAK_WRITE_ERROR", header |-> hdr, fp |-> f1,
              writes |-> w1]
        ELSE IF u.rc # "BPAK_OK"
        THEN [rc |-> "BPAK_FAILED", header |-> u.header, fp |-> f2,
              writes |-> w2]
        ELSE [rc |-> w.rc, header |-> u.header, fp |-> w.fp,
              writes |-> w2 \o w.writes]

\* ---- bpak_pkg_add_key -------------------------------------------------
\* der: the DER body mbedtls_pk_write_pubkey_der produced (<<>>: len < 0)
bpak_pkg_add_key(p, f, name, der, fault) ==
    LET a == bpak_add_part(p.header, bpak_id(name))
        off == NewOffset(p.header)
        pad == PadBytes(Len(der))
        hdr == [a.header EXCEPT !.core.parts[a.slot] =
                   [id |-> bpak_id(name), size |-> Len(der),
                    offset |-> off, transport_size |-> 0,
                    pad_bytes |-> pad, flags |-> {}]]
        f1 == WriteAt(f, off, Bytes(der))
        w1 == <<Write("body", off, Len(der))>>
        f2 == WriteAt(f1, off + Len(der), Bytes(Zeros(pad)))
        w2 == IF pad > 0
              THEN w1 \o <<Write("pad", off + Len(der), pad)>> ELSE w1
        u == bpak_pkg_update_payload_hash([p EXCEPT !.header = hdr], f2)
        w == bpak_pkg_write_header([p EXCEPT !.header = u.header], f2,
                                   IF fault = "write_header" THEN "write"
                                   ELSE "none")
    IN  IF der = <<>>
        THEN [rc |-> "BPAK_FAILED", header |-> p.header, fp |-> f,
              writes |-> <<>>]
        ELSE IF a.rc # "BPAK_OK"
        THEN [rc |-> a.rc, header |-> p.header, fp |-> f, writes |-> <<>>]
        ELSE IF fault = "seek"
        THEN [rc |-> "BPAK_SEEK_ERROR", header |-> hdr, fp |-> f,
              writes |-> <<>>]
        ELSE IF fault = "write_body"
        THEN [rc |-> "BPAK_WRITE_ERROR", header |-> hdr, fp |-> f,
              writes |-> <<>>]
        ELSE IF fault = "write_pad" /\ pad > 0
        THEN [rc |-> "BPAK_WRITE_ERROR", header |-> hdr, fp |-> f1,
              writes |-> w1]
        ELSE IF u.rc # "BPAK_OK"
        THEN [rc |-> "BPAK_FAILED", header |-> u.header, fp |-> f2,
              writes |-> w2]
        ELSE [rc |-> w.rc, header |-> u.header, fp |-> w.fp,
              writes |-> w2 \o w.writes]

\* ---- bpak_pkg_add_file_with_merkle_tree -------------------------------
\* bpak_merkle_compute_size(size, -1, true): one tree block covers up to
\* 128 data blocks
MerkleSize(n) == Block

\* The tree buffer and the root hash the Merkle builder yields
MerkleTree(content, salt) ==
    [i \in 1..MerkleSize(Len(content)) |-> IF i = 1 THEN salt ELSE 0]

MerkleRoot(content, salt) == <<salt>> \o content

\* bpak_pkg_update_payload_hash and bpak_pkg_write_header at the end of
\* bpak_pkg_add_file_with_merkle_tree: hdr and f1 are the header and the
\* stream after the tree was written, w1 the writes so far.
MerkleFinish(p, hdr, f1, w1, fault) ==
    LET u == bpak_pkg_update_payload_hash([p EXCEPT !.header = hdr], f1)
        w == bpak_pkg_write_header([p EXCEPT !.header = u.header], f1,
                                   IF fault = "m_write_header" THEN "write"
                                   ELSE "none")
    IN  IF u.rc # "BPAK_OK"
        THEN [rc |-> "BPAK_FAILED", header |-> u.header, fp |-> f1,
              writes |-> w1]
        ELSE [rc |-> w.rc, header |-> u.header, fp |-> w.fp,
              writes |-> w1 \o w.writes]

\* The two bpak_add_meta calls: merkle-salt, then merkle-root-hash
MerkleAddMetas(hdr, name, content, salt) ==
    LET m1 == bpak_add_meta(hdr, "merkle-salt", bpak_id(name), <<salt>>)
    IN  IF m1.rc # "BPAK_OK" THEN m1
        ELSE bpak_add_meta(m1.header, "merkle-root-hash", bpak_id(name),
                           MerkleRoot(content, salt))

\* The hash-tree part: bpak_add_part, the slot, the tree written at off,
\* the payload hash and the header write.  a is what add_file returned,
\* mh the header after the meta entries.
MerkleAddTree(p, a, mh, off, name, content, flags, salt, fault) ==
    LET ap == bpak_add_part(mh, bpak_id(HashTreeName(name)))
        hdr == [ap.header EXCEPT !.core.parts[ap.slot] =
                   [id |-> bpak_id(HashTreeName(name)),
                    size |-> MerkleSize(Len(content)),
                    offset |-> off, transport_size |-> 0,
                    pad_bytes |-> 0, flags |-> flags]]
    IN  IF ap.rc # "BPAK_OK"
        THEN [rc |-> ap.rc, header |-> mh, fp |-> a.fp, writes |-> a.writes]
        ELSE IF fault = "m_seek"
        THEN [rc |-> "FSEEK_MINUS_1", header |-> hdr, fp |-> a.fp,
              writes |-> a.writes]
        ELSE IF fault = "m_write"
        THEN [rc |-> "BPAK_WRITE_ERROR", header |-> hdr, fp |-> a.fp,
              writes |-> a.writes]
        ELSE MerkleFinish(p, hdr,
                          WriteAt(a.fp, off, Bytes(MerkleTree(content, salt))),
                          a.writes \o
                             <<Write("tree", off, MerkleSize(Len(content)))>>,
                          fault)

\* a is what bpak_pkg_add_file returned.  The rc of bpak_merkle_out is
\* assigned and then overwritten by that of bpak_add_meta: with fault
\* "m_out" the call goes on as with "none".
MerkleAttach(p, a, name, content, flags, salt, fault) ==
    LET m == MerkleAddMetas(a.header, name, content, salt)
    IN  IF fault = "m_fopen"
        THEN [rc |-> "BPAK_FILE_NOT_FOUND", header |-> a.header,
              fp |-> a.fp, writes |-> a.writes]
        ELSE IF fault = "m_process"
        THEN [rc |-> "BPAK_FAILED", header |-> a.header, fp |-> a.fp,
              writes |-> a.writes]
        ELSE IF m.rc # "BPAK_OK"
        THEN [rc |-> m.rc, header |-> m.header, fp |-> a.fp,
              writes |-> a.writes]
        ELSE MerkleAddTree(p, a, m.header, NewOffset(a.header), name,
                           content, flags, salt, fault)

bpak_pkg_add_file_with_merkle_tree(p, f, name, content, flags, salt, fault) ==
    LET a == bpak_pkg_add_file(p, f, name, content, flags, fault)
    IN  IF fault = "stat"
        THEN [rc |-> "BPAK_FILE_NOT_FOUND", header |-> p.header, fp |-> f,
              writes |-> <<>>]
        ELSE IF a.rc # "BPAK_OK" THEN a
        ELSE MerkleAttach(p, a, name, content, flags, salt, fault)

\* ---- sign / verify ------------------------------------------------------
\* The external verifier: a signature verifies under the public key of
\* `key` iff the signer issued it for that digest under `key`.
ExternalVerify(dg, key, sig, issued) ==
    [dg |-> dg, key |-> key, sig |-> sig] \in issued

\* verify: open the archive, compare the recomputed payload hash with the
\* stored one, then verify the signature over the header hash.
VerifyArchive(f, key, issued) ==
    LET o == bpak_pkg_open(f)
        p == [open |-> TRUE, header |-> o.header,
              header_location |-> o.header_location]
        ph == bpak_pkg_compute_payload_hash(p, f, PAYLOAD_HASH_FIELD)
        hh == bpak_pkg_compute_header_hash(p, f, PAYLOAD_HASH_FIELD, FALSE)
        sz == Min(p.header.core.signature_sz, SigSlot)
    IN  IF ph.rc # "BPAK_OK" THEN ph.rc
        ELSE IF ph.digest # p.header.core.payload_hash
        THEN "PAYLOAD_HASH_MISMATCH"
        ELSE IF hh.rc # "BPAK_OK" THEN hh.rc
        ELSE IF ExternalVerify(hh.digest, key,
                               SubSeq(p.header.core.signature, 1, sz), issued)
        THEN "BPAK_OK"
        ELSE "INVALID_SIGNATURE"

\* ---- inputs -------------------------------------------------------------
Names == 1..(N_PARTS + 1)

\* Part names are interchangeable: a call uses a name already in the table
\* or the first unused one.
NamesFor(hdr) ==
    {n \in Names : n <= 1 + Cardinality(LiveIds(hdr) \cap Names)}
Files == {[i \in 1..n |-> 1] : n \in {1, Block}}
Keys == {1, 2}
\* The signature bytes the external signer returns under each key
SignatureOf(key) == IF key = 1 THEN <<7>> ELSE [i \in 1..SigSlot |-> 5]
HashKinds == {BPAK_HASH_SHA256, BPAK_HASH_SHA512}
SignatureKind(hk) == IF hk = BPAK_HASH_SHA256 THEN "prime256v1" ELSE "secp521r1"
OutSizes == {16, 64}
\* A file of n bytes
FileOf(n) == [i \in 1..n |-> 1]

\* The (file, flags, failure injected) triples add_file is called with
AddFileInputs ==
    {<<FileOf(0), {}, "none">>, <<FileOf(1), {}, "none">>,
     <<FileOf(Block), {}, "none">>,
     <<FileOf(1), {BPAK_FLAG_EXCLUDE_FROM_HASH}, "none">>,
     <<FileOf(1), {}, "seek">>, <<FileOf(1), {}, "write_pad">>}
MerkleFaults == {"none", "m_write", "m_out"}

\* bpak_init_header: a fresh header of the given kinds
InitHeader(hk, sk) ==
    [ZeroHeader EXCEPT !.core.magic = BPAK_HEADER_MAGIC,
                       !.core.hash_kind = hk,
                       !.core.signature_kind = sk]

TailPart == [EmptyPart EXCEPT !.id = 1, !.size = Block]

\* A header describing one part of Block cells at offset 0
TailHeader ==
    [InitHeader(BPAK_HASH_SHA256, "prime256v1") EXCEPT
        !.core.parts[1] = TailPart]

\* The files open may be handed: a new file, garbage shorter and longer
\* than a header, an archive with its header at the tail, and a stream
\* whose first and last Block cells are both valid headers.
TailArchive == Bytes([i \in 1..Block |-> 1]) \o HeaderImage(TailHeader)

InitStreams ==
    { <<>>,
      Bytes(<<1>>),
      Bytes([i \in 1..(2 * Block) |-> 1]),
      TailArchive,
      HeaderImage(InitHeader(BPAK_HASH_SHA256, "prime256v1"))
         \o HeaderImage(TailHeader) }

\* The body ranges <<pos, len>> a list of writes put on the stream
BodyRanges(writes) ==
    {<<writes[k].pos, writes[k].len>> :
        k \in {j \in 1..Len(writes) : writes[j].what \in {"body", "tree"}}}

\* ---- state --------------------------------------------------------------
VARIABLES
    fp,       \* the archive stream
    pkg,      \* struct bpak_package
    ret,      \* what the last call returned and the I/O it issued
    last,     \* the last call and the state it started from
    issued,   \* signatures the external signer has issued
    plain,    \* the archive was built by create, add-meta and set only
    written,  \* the body ranges <<pos, len>> written to the stream so far
    nops,     \* calls made so far
    xfer      \* the other packages of a transport call: input and origin

vars == <<fp, pkg, ret, last, issued, plain, written, nops, xfer>>

Ret(rc) ==
    [rc |-> rc, reads |-> <<>>, writes |-> <<>>, out |-> FALSE,
     size |-> 0, digest |-> ZeroDigest]

Call(op, arg) ==
    [op |-> op, arg |-> arg, pkg |-> pkg, fp |-> fp, written |-> written]

Init ==
    /\ fp \in InitStreams
    /\ pkg = ClosedPkg
    /\ ret = Ret("BPAK_OK")
    /\ last = [op |-> "none", arg |-> <<>>, pkg |-> ClosedPkg, fp |-> <<>>,
               written |-> {}]
    /\ issued = {}
    /\ plain = FALSE
    /\ written = IF fp = TailArchive THEN {<<0, Block>>} ELSE {}
    /\ nops = 0
    /\ xfer = NoTransfer

Step == nops < MaxOps /\ nops' = nops + 1

Wrote(writes) == written' = written \cup BodyRanges(writes)

\* bpak create: a fresh header of the chosen kinds written to a new file
Create(hk) ==
    LET p == [open |-> TRUE, header |-> InitHeader(hk, SignatureKind(hk)),
              header_location |-> BPAK_HEADER_POS_FIRST]
        w == bpak_pkg_write_header(p, <<>>, "none")
    IN  /\ ~pkg.open /\ fp = <<>> /\ Step
        /\ pkg' = p
        /\ fp' = w.fp
        /\ ret' = [Ret(w.rc) EXCEPT !.writes = w.writes]
        /\ last' = Call("create", <<hk>>)
        /\ plain' = TRUE
        /\ written' = {}
        /\ UNCHANGED issued
        /\ UNCHANGED xfer

Open ==
    LET o == bpak_pkg_open(fp)
    IN  /\ ~pkg.open /\ Step
        /\ pkg' = [open |-> o.rc = "BPAK_OK", header |-> o.header,
                   header_location |-> o.header_location]
        /\ ret' = [Ret(o.rc) EXCEPT !.reads = o.reads]
        /\ last' = Call("open", <<>>)
        /\ plain' = FALSE
        /\ UNCHANGED <<fp, issued, written>>
        /\ UNCHANGED xfer

\* The archive opened through the struct bpak_io facade
OpenIo ==
    LET o == bpak_pkg_open_io(fp)
    IN  /\ ~pkg.open /\ Step
        /\ pkg' = [open |-> o.rc = "BPAK_OK", header |-> o.header,
                   header_location |-> o.header_location]
        /\ ret' = [Ret(o.rc) EXCEPT !.reads = o.reads]
        /\ last' = Call("open_io", <<>>)
        /\ plain' = FALSE
        /\ UNCHANGED <<fp, issued, written>>
        /\ UNCHANGED xfer

Close ==
    /\ pkg.open /\ Step
    /\ pkg' = [pkg EXCEPT !.open = FALSE]
    /\ ret' = Ret("BPAK_OK")
    /\ last' = Call("close", <<>>)
    /\ UNCHANGED <<fp, issued, plain, written>>
    /\ UNCHANGED xfer

\* bpak add --meta: a meta entry, then the header written back
AddMeta(data) ==
    LET m == bpak_add_meta(pkg.header, "bpak-package", 0, data)
        w == bpak_pkg_write_header([pkg EXCEPT !.header = m.header], fp, "none")
    IN  /\ pkg.open /\ Step
        /\ pkg' = [pkg EXCEPT !.header = m.header]
        /\ fp' = IF m.rc = "BPAK_OK" THEN w.fp ELSE fp
        /\ ret' = IF m.rc = "BPAK_OK"
                  THEN [Ret(w.rc) EXCEPT !.writes = w.writes] ELSE Ret(m.rc)
        /\ last' = Call("add_meta", <<data>>)
        /\ UNCHANGED <<issued, plain, written>>
        /\ UNCHANGED xfer

\* bpak set --key-id --keystore-id, then the header written back
SetKeyId(kid, ksid) ==
    LET hdr == [pkg.header EXCEPT !.core.key_id = kid,
                                  !.core.keystore_id = ksid]
        w == bpak_pkg_write_header([pkg EXCEPT !.header = hdr], fp, "none")
    IN  /\ pkg.open /\ Step
        /\ pkg' = [pkg EXCEPT !.header = hdr]
        /\ fp' = w.fp
        /\ ret' = [Ret(w.rc) EXCEPT !.writes = w.writes]
        /\ last' = Call("set", <<kid, ksid>>)
        /\ UNCHANGED <<issued, plain, written>>
        /\ UNCHANGED xfer

AddFile(name, content, flags, fault) ==
    LET r == bpak_pkg_add_file(pkg, fp, name, content, flags, fault)
    IN  /\ pkg.open /\ Step
        /\ pkg' = [pkg EXCEPT !.header = r.header]
        /\ fp' = r.fp
        /\ ret' = [Ret(r.rc) EXCEPT !.writes = r.writes]
        /\ last' = Call("add_file", <<name, content, flags, fault>>)
        /\ plain' = FALSE
        /\ Wrote(r.writes)
        /\ UNCHANGED issued
        /\ UNCHANGED xfer

AddKey(name, der, fault) ==
    LET r == bpak_pkg_add_key(pkg, fp, name, der, fault)
    IN  /\ pkg.open /\ Step
        /\ pkg' = [pkg EXCEPT !.header = r.header]
        /\ fp' = r.fp
        /\ ret' = [Ret(r.rc) EXCEPT !.writes = r.writes]
        /\ last' = Call("add_key", <<name, der, fault>>)
        /\ plain' = FALSE
        /\ Wrote(r.writes)
        /\ UNCHANGED issued
        /\ UNCHANGED xfer

AddFileWithMerkleTree(name, content, flags, salt, fault) ==
    LET r == bpak_pkg_add_file_with_merkle_tree(pkg, fp, name, content,
                                                flags, salt, fault)
    IN  /\ pkg.open /\ Step
        /\ pkg' = [pkg EXCEPT !.header = r.header]
        /\ fp' = r.fp
        /\ ret' = [Ret(r.rc) EXCEPT !.writes = r.writes]
        /\ last' = Call("add_file_with_merkle_tree",
                        <<name, content, flags, salt, fault>>)
        /\ plain' = FALSE
        /\ Wrote(r.writes)
        /\ UNCHANGED issued
        /\ UNCHANGED xfer

\* bpak sign: the header hash with the payload hash refreshed, the
\* external signer, then write_signature
Sign(key, sig) ==
    LET h == bpak_pkg_compute_header_hash(pkg, fp, PAYLOAD_HASH_FIELD, TRUE)
        s == bpak_pkg_write_raw_signature([pkg EXCEPT !.header = h.header],
                                          fp, sig, "none")
    IN  /\ pkg.open /\ Step
        /\ last' = Call("sign", <<key, sig>>)
        /\ IF h.rc # "BPAK_OK"
           THEN /\ pkg' = [pkg EXCEPT !.header = h.header]
                /\ ret' = Ret(h.rc)
                /\ UNCHANGED <<fp, issued>>
           ELSE /\ pkg' = [pkg EXCEPT !.header = s.header]
                /\ fp' = s.fp
                /\ issued' = issued \cup
                                {[dg |-> h.digest, key |-> key, sig |-> sig]}
                /\ ret' = [Ret(s.rc) EXCEPT !.writes = s.writes,
                                            !.digest = h.digest,
                                            !.size = h.size, !.out = h.out]
        /\ UNCHANGED <<plain, written>>
        /\ UNCHANGED xfer

\* bpak verify with the public key of `key`
Verify(key) ==
    /\ Step
    /\ ret' = Ret(VerifyArchive(fp, key, issued))
    /\ last' = Call("verify", <<key>>)
    /\ UNCHANGED <<fp, pkg, issued, plain, written>>
    /\ UNCHANGED xfer

WriteHeader ==
    LET w == bpak_pkg_write_header(pkg, fp, "none")
    IN  /\ pkg.open /\ Step
        /\ fp' = w.fp
        /\ ret' = [Ret(w.rc) EXCEPT !.writes = w.writes]
        /\ last' = Call("write_header", <<>>)
        /\ plain' = FALSE
        /\ UNCHANGED <<pkg, issued, written>>
        /\ UNCHANGED xfer

\* bpak_pkg_write_header of a package just opened over struct bpak_io
WriteHeaderIo ==
    LET w == bpak_pkg_write_header_io(pkg, fp)
    IN  /\ pkg.open /\ last.op = "open_io" /\ Step
        /\ fp' = w.fp
        /\ ret' = [Ret(w.rc) EXCEPT !.writes = w.writes]
        /\ last' = Call("write_header_io", <<>>)
        /\ plain' = FALSE
        /\ UNCHANGED <<pkg, issued, written>>
        /\ UNCHANGED xfer

ComputeHeaderHash(size) ==
    LET h == bpak_pkg_compute_header_hash(pkg, fp, size, FALSE)
    IN  /\ pkg.open /\ Step
        /\ pkg' = [pkg EXCEPT !.header = h.header]
        /\ ret' = [Ret(h.rc) EXCEPT !.digest = h.digest, !.size = h.size,
                                    !.out = h.out]
        /\ last' = Call("compute_header_hash", <<size>>)
        /\ plain' = FALSE
        /\ UNCHANGED <<fp, issued, written>>
        /\ UNCHANGED xfer

Next ==
    \/ \E hk \in HashKinds : Create(hk)
    \/ Open
    \/ OpenIo
    \/ Close
    \/ \E d \in {<<8>>} : AddMeta(d)
    \/ \E k \in {3} : SetKeyId(k, k + 1)
    \/ \E n \in NamesFor(pkg.header), i \in AddFileInputs :
          AddFile(n, i[1], i[2], i[3])
    \/ \E n \in NamesFor(pkg.header), d \in {<<>>, <<4>>} :
          AddKey(n, d, "none")
    \/ \E n \in NamesFor(pkg.header), c \in Files, ft \in MerkleFaults :
          AddFileWithMerkleTree(n, c, {}, 6, ft)
    \/ \E k \in Keys : Sign(k, SignatureOf(k))
    \/ \E k \in Keys : Verify(k)
    \/ WriteHeader
    \/ WriteHeaderIo
    \/ \E sz \in OutSizes : ComputeHeaderHash(sz)

Spec == Init /\ [][Next]_vars

\* ---- size queries --------------------------------------------------------
\* bpak_pkg_installed_size without the padding (a mutant)
bpak_pkg_installed_size_nopad(p) ==
    SumSeq([i \in 1..N_PARTS |-> p.header.core.parts[i].size])

\* bpak_pkg_installed_size: size + pad_bytes summed over the part slots
bpak_pkg_installed_size(p) ==
    SumSeq([i \in 1..N_PARTS |->
              p.header.core.parts[i].size + p.header.core.parts[i].pad_bytes])

\* bpak_pkg_size that ignores the TRANSPORT flag (a mutant)
bpak_pkg_size_plain(p) ==
    SumSeq([i \in 1..N_PARTS |-> p.header.core.parts[i].size]) + sizeof_header

\* bpak_pkg_size: transport_size of the TRANSPORT parts, size of the
\* others, plus sizeof(struct bpak_header)
bpak_pkg_size(p) ==
    SumSeq([i \in 1..N_PARTS |->
              IF BPAK_FLAG_TRANSPORT \in p.header.core.parts[i].flags
              THEN p.header.core.parts[i].transport_size
              ELSE p.header.core.parts[i].size]) + sizeof_header

\* The part slots the size queries are tried on: an empty slot, padded and
\* unpadded parts, a part of two blocks and one byte, TRANSPORT parts
SizeSlots ==
    { EmptyPart,
      [EmptyPart EXCEPT !.id = 1, !.size = 1, !.pad_bytes = Block - 1],
      [EmptyPart EXCEPT !.id = 1, !.size = Block],
      [EmptyPart EXCEPT !.id = 1, !.size = 2 * Block + 1,
                        !.pad_bytes = Block - 1],
      [EmptyPart EXCEPT !.id = 1, !.size = Block, !.transport_size = 1,
                        !.flags = {BPAK_FLAG_TRANSPORT}],
      [EmptyPart EXCEPT !.id = 1, !.size = 1, !.pad_bytes = Block - 1,
                        !.transport_size = Block + 1,
                        !.flags = {BPAK_FLAG_TRANSPORT,
                                   BPAK_FLAG_EXCLUDE_FROM_HASH}] }

\* The part tables over SizeSlots, slot i carrying id i when live
SizeTables ==
    { [i \in 1..N_PARTS |->
          IF t[i].id = 0 THEN t[i] ELSE [t[i] EXCEPT !.id = i]] :
        t \in [1..N_PARTS -> SizeSlots] }

SizeInit ==
    /\ fp = <<>>
    /\ \E t \in SizeTables,
          loc \in {BPAK_HEADER_POS_FIRST, BPAK_HEADER_POS_LAST} :
          pkg = [open |-> TRUE,
                 header |-> [InitHeader(BPAK_HASH_SHA256, "prime256v1")
                                EXCEPT !.core.parts = t],
                 header_location |-> loc]
    /\ ret = Ret("BPAK_OK")
    /\ last = [op |-> "none", arg |-> <<>>, pkg |-> ClosedPkg, fp |-> <<>>,
               written |-> {}]
    /\ issued = {}
    /\ plain = FALSE
    /\ written = {}
    /\ nops = 0
    /\ xfer = NoTransfer

InstalledSize ==
    /\ pkg.open
    /\ ret' = [Ret("BPAK_OK") EXCEPT !.size = bpak_pkg_installed_size(pkg)]
    /\ last' = Call("installed_size", <<>>)
    /\ UNCHANGED <<fp, pkg, issued, plain, written, nops>>
    /\ UNCHANGED xfer

PkgSize ==
    /\ pkg.open
    /\ ret' = [Ret("BPAK_OK") EXCEPT !.size = bpak_pkg_size(pkg)]
    /\ last' = Call("size", <<>>)
    /\ UNCHANGED <<fp, pkg, issued, plain, written, nops>>
    /\ UNCHANGED xfer

SizeNext == InstalledSize \/ PkgSize

SpecSize == SizeInit /\ [][SizeNext]_vars

\* ---- write_signature on its own -------------------------------------------
\* The signatures handed to bpak_pkg_write_raw_signature: every length up
\* to two past the slot
SigInputs == {[i \in 1..n |-> 6 + i] : n \in 0..(SigSlot + 2)}

\* Headers with and without an earlier full-length signature and key ids
SigHeaders ==
    { [InitHeader(hk, SignatureKind(hk)) EXCEPT
          !.core.signature = SignatureSlot(old),
          !.core.signature_sz = Len(old),
          !.core.key_id = kid, !.core.keystore_id = kid + 1] :
        hk \in HashKinds, old \in {<<>>, FileOf(1), [i \in 1..SigSlot |-> 5]},
        kid \in {0, 3} }

SigInit ==
    /\ \E h \in SigHeaders,
          loc \in {BPAK_HEADER_POS_FIRST, BPAK_HEADER_POS_LAST} :
          /\ pkg = [open |-> TRUE, header |-> h, header_location |-> loc]
          /\ fp = IF loc = BPAK_HEADER_POS_FIRST
                  THEN HeaderImage(h) \o Bytes(FileOf(1))
                  ELSE Bytes(FileOf(Block)) \o HeaderImage(h)
    /\ ret = Ret("BPAK_OK")
    /\ last = [op |-> "none", arg |-> <<>>, pkg |-> ClosedPkg, fp |-> <<>>,
               written |-> {}]
    /\ issued = {}
    /\ plain = FALSE
    /\ written = {}
    /\ nops = 0
    /\ xfer = NoTransfer

WriteRawSignature(sig) ==
    LET r == bpak_pkg_write_raw_signature(pkg, fp, sig, "none")
    IN  /\ pkg.open /\ Step
        /\ pkg' = [pkg EXCEPT !.header = r.header]
        /\ fp' = r.fp
        /\ ret' = [Ret(r.rc) EXCEPT !.writes = r.writes]
        /\ last' = Call("write_raw_signature", <<sig>>)
        /\ UNCHANGED <<issued, plain, written>>
        /\ UNCHANGED xfer

SigNext == \E sig \in SigInputs : WriteRawSignature(sig)

SpecSig == SigInit /\ [][SigNext]_vars

\* ---- transport: codecs and the encoder ------------------------------------
BPAK_META_TRANSPORT == "bpak-transport"
ALG_NONE == "none"
ALG_HEATSHRINK == "bpak-heatshrink"
ALG_BSDIFF == "bpak-bsdiff"

\* uint8_t chunk_buffer[4096]
sizeof_chunk_buffer == Block

\* bpak_get_meta(h, id("bpak-transport"), part id): the matching meta slots
TransportSlots(hdr, id) ==
    {i \in 1..N_META : /\ hdr.core.meta[i].id = BPAK_META_TRANSPORT
                       /\ hdr.core.meta[i].part_id_ref = id}

\* The <<encode, decode>> algorithms of a part: verbatim copy without meta
TransportAlgs(hdr, id) ==
    IF TransportSlots(hdr, id) = {} THEN <<ALG_NONE, ALG_NONE>>
    ELSE hdr.core.meta[FirstFree(TransportSlots(hdr, id))].data

\* bpak_get_part(h, id, &part): the slot carrying id, 0 when there is none
bpak_get_part(hdr, id) ==
    LET S == {i \in 1..N_PARTS : hdr.core.parts[i].id = id}
    IN  IF id = 0 \/ S = {} THEN 0 ELSE FirstFree(S)

\* Byte k (from 0) of the body of part id in the origin: 0 past its end
OriginByte(origin, id, k) ==
    LET s == bpak_get_part(origin.header, id)
        got == IF s = 0 THEN <<>>
               ELSE ReadAt(origin.fp,
                           bpak_part_offset(origin.header.core.parts[s]) + k, 1)
    IN  IF got = <<>> \/ k >= bpak_part_size(origin.header.core.parts[s])
        THEN 0 ELSE got[1].b

\* The encoders.  heatshrink: a length cell, then the recoded bytes.
\* bsdiff: the difference to the origin part, byte by byte.
AlgEncode(alg, body, origin, id) ==
    CASE alg = ALG_HEATSHRINK ->
            <<ByteCell(Len(body))>>
                \o [i \in 1..Len(body) |-> ByteCell(body[i].b + 100)]
      [] alg = ALG_BSDIFF ->
            [i \in 1..Len(body) |->
                ByteCell(body[i].b - OriginByte(origin, id, i - 1))]
      [] OTHER -> body

\* The next multiple of the alignment
AlignUp(n) == n + PadBytes(n)

\* Steps 2 to 4 of encode from slot i on: hdr and f are the output header and
\* stream so far, pos the aligned tail of the output.
RECURSIVE EncodeParts(_, _, _, _, _, _)
EncodeParts(inp, origin, hdr, f, i, pos) ==
    IF i > N_PARTS THEN [rc |-> "BPAK_OK", header |-> hdr, fp |-> f]
    ELSE LET p == inp.header.core.parts[i]
             alg == TransportAlgs(inp.header, p.id)[1]
             body == ReadAt(inp.fp, bpak_part_offset(p), bpak_part_size(p))
             enc == AlgEncode(alg, body, origin, p.id)
             q == [p EXCEPT !.offset = pos, !.transport_size = Len(enc),
                            !.flags = @ \cup {BPAK_FLAG_TRANSPORT}]
         IN  IF p.id = 0 THEN EncodeParts(inp, origin, hdr, f, i + 1, pos)
             ELSE IF alg = ALG_BSDIFF
                     /\ (origin.null \/ bpak_get_part(origin.header, p.id) = 0)
             THEN [rc |-> "BPAK_NOT_FOUND", header |-> hdr, fp |-> f]
             ELSE EncodeParts(inp, origin,
                              [hdr EXCEPT !.core.parts[i] = q],
                              IF enc = <<>> THEN f ELSE WriteAt(f, pos, enc),
                              i + 1, AlignUp(pos + Len(enc)))

\* bpak_transport_encode: the output header starts as the input header, the
\* parts are encoded to the tail, the payload hash of the encoded archive is
\* put in the output header, and the header is written.
bpak_transport_encode(inp, origin) ==
    LET r == EncodeParts(inp, origin, inp.header, <<>>, 1, sizeof_header)
        h == bpak_pkg_update_payload_hash(
                [header |-> r.header,
                 header_location |-> BPAK_HEADER_POS_FIRST], r.fp)
    IN  IF r.rc # "BPAK_OK" THEN r
        ELSE [rc |-> h.rc, header |-> h.header,
              fp |-> WriteAt(r.fp, 0, HeaderImage(h.header))]

\* bpak_pkg_transport_encode: the origin counts only when it has a stream
bpak_pkg_transport_encode(inp, origin) ==
    bpak_transport_encode(inp,
        IF ~origin.null /\ origin.open THEN origin ELSE NullPkg)

\* ---- transport: the decoder -----------------------------------------------
\* The state of one bpak_pkg_transport_decode call: rc, the patch header
\* (the header of the input package), the output stream, the position of
\* the input stream, decode_private's offsets, and the trace of what the
\* call did, in order: the decoder calls (start, write_chunk, finish), the
\* reads of the input (read), the writes of the output header
\* (write_output_header), the accesses to the origin package
\* (null_deref, get_part, read_origin) and the release of the decoder
\* context (decode_free).  returned: the call left through a return
\* statement of its own, not through err_out.
DecodeState(inp, out) ==
    [rc |-> "BPAK_OK", hdr |-> inp.header, out |-> out,
     inpos |-> sizeof_header, origin_offset |-> 0, output_offset |-> 0,
     trace |-> <<>>, fed |-> <<>>, returned |-> FALSE]

\* Something done for slot i, on n bytes, with its result
Noted(st, fn, i, n, rc) ==
    [st EXCEPT !.trace = Append(@, [fn |-> fn, slot |-> i, len |-> n,
                                    rc |-> rc])]

\* A decoder call and what it returned
Called(st, fn, i, n, rc) == [Noted(st, fn, i, n, rc) EXCEPT !.rc = rc]

Failed(st, rc) == [st EXCEPT !.rc = rc]

\* return rc; in the middle of the function
Returned(st, rc) == [st EXCEPT !.rc = rc, !.returned = TRUE]

\* err_out: bpak_transport_decode_free(&decode_ctx); return rc;
ErrOut(st) ==
    IF st.returned THEN st ELSE Noted(st, "decode_free", 0, 0, "BPAK_OK")

\* decode_write_output: fseek(output_fp, output_offset + offset), fwrite
decode_write_output(f, output_offset, offset, buffer) ==
    WriteAt(f, output_offset + offset, buffer)

\* decode_write_output_header without the length test (a mutant)
decode_write_output_header_any(f, buffer, fault) ==
    IF fault = "seek"
    THEN [rc |-> "BPAK_SEEK_ERROR", n |-> 0, fp |-> f, seeks |-> <<0>>]
    ELSE [rc |-> "BPAK_OK", n |-> Len(buffer),
          fp |-> IF buffer = <<>> THEN f ELSE WriteAt(f, 0, buffer),
          seeks |-> <<0>>]

\* decode_write_output_header: only a whole header, at offset 0.  The
\* result is the error returned (rc) or the count fwrite returns (n), the
\* stream afterwards and the seeks issued on it.
decode_write_output_header(f, buffer, fault) ==
    IF Len(buffer) # sizeof_header
    THEN [rc |-> "BPAK_SIZE_ERROR", n |-> 0, fp |-> f, seeks |-> <<>>]
    ELSE IF fault = "seek"
    THEN [rc |-> "BPAK_SEEK_ERROR", n |-> 0, fp |-> f, seeks |-> <<0>>]
    ELSE [rc |-> "BPAK_OK", n |-> Len(buffer),
          fp |-> WriteAt(f, 0, buffer), seeks |-> <<0>>]

\* decode_read_origin: fseek(origin_fp, origin_offset + offset), fread
decode_read_origin(origin, origin_offset, offset, length) ==
    ReadAt(origin.fp, origin_offset + offset, length)

\* Byte k of the origin part as the bsdiff decoder sees it
DecodeOriginByte(origin, origin_offset, id, k) ==
    LET s == bpak_get_part(origin.header, id)
        got == decode_read_origin(origin, origin_offset, k, 1)
    IN  IF s = 0 \/ got = <<>>
           \/ k >= bpak_part_size(origin.header.core.parts[s])
        THEN 0 ELSE got[1].b

\* What a decoder deposits for a chunk, `seen` input bytes of the part
\* having been consumed before: the offset in the part and the bytes.
AlgDecode(alg, data, seen, origin, origin_offset, id) ==
    CASE alg = ALG_HEATSHRINK ->
            LET body == IF seen = 0 THEN Tail(data) ELSE data
            IN  [off |-> IF seen = 0 THEN 0 ELSE seen - 1,
                 cells |-> [j \in 1..Len(body) |-> ByteCell(body[j].b - 100)]]
      [] alg = ALG_BSDIFF ->
            [off |-> seen,
             cells |-> [j \in 1..Len(data) |->
                          ByteCell(data[j].b
                                   + DecodeOriginByte(origin, origin_offset,
                                                      id, seen + j - 1))]]
      [] OTHER -> [off |-> seen, cells |-> data]

\* bpak_transport_decode_start(ctx, part)
bpak_transport_decode_start(st, e, i) ==
    LET alg == TransportAlgs(st.hdr, st.hdr.core.parts[i].id)[2]
    IN  IF e.fault = <<i, "start">>
        THEN Called(st, "start", i, 0, "BPAK_FAILED")
        ELSE IF alg = ALG_BSDIFF /\ e.origin.null
        THEN Called(st, "start", i, 0, "BPAK_NOT_SUPPORTED")
        ELSE Called(st, "start", i, 0, "BPAK_OK")

\* bpak_transport_decode_write_chunk(ctx, chunk_buffer, chunk_length)
bpak_transport_decode_write_chunk(st, e, i, seen, data) ==
    LET s == [Called(st, "write_chunk", i, Len(data), "BPAK_OK") EXCEPT
                 !.fed = Append(@, [slot |-> i, seen |-> seen,
                                    data |-> data])]
        id == st.hdr.core.parts[i].id
        alg == TransportAlgs(st.hdr, id)[2]
        d == AlgDecode(alg, data, seen, e.origin, st.origin_offset, id)
    IN  IF e.fault = <<i, "chunk">>
        THEN [s EXCEPT !.rc = "BPAK_FAILED",
                       !.trace[Len(s.trace)].rc = "BPAK_FAILED"]
        ELSE [s EXCEPT
                !.out = IF d.cells = <<>> THEN @
                        ELSE decode_write_output(@, st.output_offset,
                                                 d.off, d.cells),
                !.trace = IF alg = ALG_BSDIFF
                          THEN Append(@, [fn |-> "read_origin", slot |-> i,
                                          len |-> Len(data),
                                          rc |-> "BPAK_OK"])
                          ELSE @]

\* bpak_transport_decode_finish(ctx): the part is complete; the decoder may
\* write the output header through its hook (e.hook).
bpak_transport_decode_finish(st, e, i) ==
    LET s == Called(st, "finish", i, 0, "BPAK_OK")
        hdr == [st.hdr EXCEPT
                  !.core.parts[i].flags = @ \ {BPAK_FLAG_TRANSPORT},
                  !.core.parts[i].transport_size = 0]
    IN  IF e.fault = <<i, "finish">>
        THEN Called(st, "finish", i, 0, "BPAK_FAILED")
        ELSE [s EXCEPT
                !.hdr = hdr,
                !.out = IF e.hook
                        THEN decode_write_output_header(
                                @, HeaderImage(hdr), "none").fp
                        ELSE @,
                !.trace = IF e.hook
                          THEN Append(@, [fn |-> "write_output_header",
                                          slot |-> i, len |-> sizeof_header,
                                          rc |-> "BPAK_OK"])
                          ELSE @]

\* BPAK_MIN(bytes_to_process, bytes_to_process): the whole part (a mutant)
ChunkLength_whole(bytes_to_process) == bytes_to_process

\* BPAK_MIN(bytes_to_process, sizeof(chunk_buffer))
ChunkLength(bytes_to_process) == Min(bytes_to_process, sizeof_chunk_buffer)

\* while (bytes_to_process): read a chunk of the input, feed the decoder
RECURSIVE DecodeChunks(_, _, _, _, _)
DecodeChunks(st, e, i, seen, bytes_to_process) ==
    IF bytes_to_process = 0 THEN st
    ELSE LET chunk_length == ChunkLength(bytes_to_process)
             got == ReadAt(e.in, st.inpos, chunk_length)
             s1 == Noted([st EXCEPT !.inpos = @ + Len(got)],
                         "read", i, chunk_length,
                         IF Len(got) # chunk_length THEN "BPAK_READ_ERROR"
                         ELSE "BPAK_OK")
             s2 == bpak_transport_decode_write_chunk(s1, e, i, seen, got)
         IN  IF Len(got) # chunk_length THEN Returned(s1, "BPAK_READ_ERROR")
             ELSE IF s2.rc # "BPAK_OK" THEN s2
             ELSE DecodeChunks(s2, e, i, seen + chunk_length,
                               bytes_to_process - chunk_length)

\* if (origin->fp != NULL) { bpak_get_part(&origin->header, ...) }.
\* With origin == NULL the test reads through a null pointer: the call
\* crashes, or goes on with whatever the read yields (e.ub).
DecodeOrigin(st, e, i) ==
    LET id == st.hdr.core.parts[i].id
        s == bpak_get_part(e.origin.header, id)
    IN  IF e.origin.null
        THEN LET d == Noted(st, "null_deref", i, 0, "BPAK_OK")
             IN  CASE e.ub = "crash" -> Returned(d, "SIGSEGV")
                   [] e.ub = "lookup" -> Failed(d, "BPAK_NOT_FOUND")
                   [] OTHER -> d
        ELSE IF ~e.origin.open THEN st
        ELSE IF s = 0
        THEN Called(st, "get_part", i, 0, "BPAK_NOT_FOUND")
        ELSE [Noted(st, "get_part", i, 0, "BPAK_OK") EXCEPT
                !.origin_offset =
                    bpak_part_offset(e.origin.header.core.parts[s])]

\* The body of the part loop for slot i
DecodePart(st, e, i) ==
    LET s0 == DecodeOrigin(st, e, i)
        s1 == [s0 EXCEPT !.output_offset =
                            bpak_part_offset(s0.hdr.core.parts[i])]
        s2 == bpak_transport_decode_start(s1, e, i)
        s3 == DecodeChunks(s2, e, i, 0, bpak_part_size(s2.hdr.core.parts[i]))
    IN  IF s0.rc # "BPAK_OK" THEN s0
        ELSE IF s2.rc # "BPAK_OK" THEN s2
        ELSE IF s3.rc # "BPAK_OK" THEN s3
        ELSE bpak_transport_decode_finish(s3, e, i)

\* bpak_foreach_part(patch_header, part) { if (part->id == 0) break; ... }
RECURSIVE DecodeParts(_, _, _)
DecodeParts(st, e, i) ==
    IF i > N_PARTS THEN st
    ELSE IF st.hdr.core.parts[i].id = 0 THEN st
    ELSE LET s == DecodePart(st, e, i)
         IN  IF s.rc # "BPAK_OK" THEN s ELSE DecodeParts(s, e, i + 1)

\* bpak_pkg_transport_decode(input, output, origin).  plan: the call that
\* fails (fault), whether the decoder writes the output header when a part
\* is finished (hook), what the null pointer read does (ub).
bpak_pkg_transport_decode(inp, out, origin, plan) ==
    LET e == [in |-> inp.fp, origin |-> origin, fault |-> plan.fault,
              hook |-> plan.hook, ub |-> plan.ub]
        st == DecodeState(inp, out)
    IN  IF plan.fault = <<0, "init">> THEN ErrOut(Failed(st, "BPAK_FAILED"))
        ELSE IF ~origin.null /\ plan.fault = <<0, "set_origin">>
        THEN ErrOut(Failed(st, "BPAK_FAILED"))
        ELSE IF plan.fault = <<0, "seek">>
        THEN Returned(st, "BPAK_SEEK_ERROR")
        ELSE ErrOut(DecodeParts(st, e, 1))

\* ---- transport: archives, calls and the specification --------------------
\* The parts an archive is built from: <<size, transport algorithm>>
PartKinds ==
    {<<0, ALG_NONE>>, <<1, ALG_NONE>>, <<Block + 1, ALG_NONE>>,
     <<Block, ALG_HEATSHRINK>>, <<1, ALG_BSDIFF>>}

ArchiveTables ==
    UNION {[1..n -> PartKinds] : n \in 0..N_PARTS}

\* The offset of part i of the table: parts follow the header, each padded
\* to the alignment
ArchiveOffset(kinds, i) ==
    sizeof_header + SumSeq([j \in 1..(i - 1) |-> AlignUp(kinds[j][1])])

\* The slots that carry a transport algorithm, and the k-th of them
CodedSlots(kinds) == {i \in 1..Len(kinds) : kinds[i][2] # ALG_NONE}

CodedSlot(kinds, k) ==
    CHOOSE i \in CodedSlots(kinds) :
        Cardinality({j \in CodedSlots(kinds) : j < i}) = k - 1

ArchiveHeader(kinds) ==
    [InitHeader(BPAK_HASH_SHA256, "prime256v1") EXCEPT
        !.core.parts =
            [i \in 1..N_PARTS |->
                IF i > Len(kinds) THEN EmptyPart
                ELSE [id |-> bpak_id(i), size |-> kinds[i][1],
                      offset |-> ArchiveOffset(kinds, i),
                      transport_size |-> 0,
                      pad_bytes |-> PadBytes(kinds[i][1]), flags |-> {}]],
        !.core.meta =
            [k \in 1..N_META |->
                IF k > Cardinality(CodedSlots(kinds)) THEN EmptyMeta
                ELSE [id |-> BPAK_META_TRANSPORT,
                      part_id_ref |-> bpak_id(CodedSlot(kinds, k)),
                      size |-> 2,
                      data |-> <<kinds[CodedSlot(kinds, k)][2],
                                 kinds[CodedSlot(kinds, k)][2]>>]]]

\* The bodies: byte value base + i for part i, zero padding after each
ArchiveBody(kinds, base) ==
    [pos \in 1..(ArchiveOffset(kinds, Len(kinds) + 1) - sizeof_header) |->
        LET S == {i \in 1..Len(kinds) :
                    /\ pos + sizeof_header > ArchiveOffset(kinds, i)
                    /\ pos + sizeof_header
                          <= ArchiveOffset(kinds, i) + kinds[i][1]}
        IN  IF S = {} THEN ZeroCell ELSE ByteCell(base + FirstFree(S))]

\* The archive create and add_file leave for the table: header at the
\* front with the payload hash of the bodies, then the padded bodies
MakeArchive(kinds, base) ==
    LET body == ArchiveBody(kinds, base)
        f == HeaderImage(ArchiveHeader(kinds)) \o body
        h == bpak_pkg_update_payload_hash(
                [header |-> ArchiveHeader(kinds),
                 header_location |-> BPAK_HEADER_POS_FIRST], f)
    IN  PkgOn(h.header, HeaderImage(h.header) \o body)

\* The origin handed to a transport call: none, a package object without a
\* stream, an archive holding every part id, an archive holding only id 1
ClosedOrigin == [NullPkg EXCEPT !.null = FALSE]

OriginFull == MakeArchive([i \in 1..N_PARTS |-> <<1, ALG_NONE>>], 4)

OriginOne == MakeArchive(<<<<1, ALG_NONE>>>>, 4)

Origins == {NullPkg, ClosedOrigin, OriginFull, OriginOne}

\* The calls that can be made to fail in a decode
DecodeFaults ==
    {<<0, "none">>, <<0, "init">>, <<0, "set_origin">>, <<0, "seek">>}
        \cup {<<i, s>> : i \in 1..N_PARTS, s \in {"start", "chunk", "finish"}}

DecodePlans(origin) ==
    {[fault |-> f, hook |-> h, ub |-> u, cut |-> c] :
        f \in DecodeFaults, h \in BOOLEAN,
        u \in IF origin.null THEN {"crash", "skip", "lookup"} ELSE {"none"},
        c \in {0, 1}}

TransportInit ==
    /\ fp = <<>>
    /\ pkg = ClosedPkg
    /\ ret = Ret("BPAK_OK")
    /\ last = [op |-> "none", arg |-> <<>>, pkg |-> ClosedPkg, fp |-> <<>>,
               written |-> {}]
    /\ issued = {}
    /\ plain = FALSE
    /\ written = {}
    /\ nops = 0
    /\ \E t \in ArchiveTables, o \in Origins :
          xfer = [source |-> MakeArchive(t, 0), input |-> MakeArchive(t, 0),
                  origin |-> o]

\* bpak transport --encode: the archive is the input, the encoded archive
\* becomes the package at hand
TransportEncode ==
    LET r == bpak_pkg_transport_encode(xfer.input, xfer.origin)
    IN  /\ last.op = "none"
        /\ pkg' = [open |-> TRUE, header |-> r.header,
                   header_location |-> BPAK_HEADER_POS_FIRST]
        /\ fp' = r.fp
        /\ ret' = Ret(r.rc)
        /\ last' = Call("transport_encode", <<>>)
        /\ UNCHANGED <<issued, plain, written, nops, xfer>>

\* What a decode returned and what was observed of it
DecodeRet(r) ==
    [rc |-> r.rc, reads |-> <<>>, writes |-> <<>>, out |-> FALSE,
     size |-> 0, digest |-> ZeroDigest, trace |-> r.trace, fed |-> r.fed]

\* bpak transport --decode of the encoded archive (its last plan.cut bytes
\* missing) into a new output file, against the origin of the encode
TransportDecode(plan) ==
    LET inp == PkgOn(pkg.header, SubSeq(fp, 1, Len(fp) - plan.cut))
        r == bpak_pkg_transport_decode(inp, <<>>, xfer.origin, plan)
    IN  /\ last.op = "transport_encode" /\ ret.rc = "BPAK_OK"
        /\ Len(fp) >= plan.cut
        /\ pkg' = [open |-> TRUE, header |-> ZeroHeader,
                   header_location |-> BPAK_HEADER_POS_FIRST]
        /\ fp' = r.out
        /\ ret' = DecodeRet(r)
        /\ last' = Call("transport_decode", <<plan>>)
        /\ xfer' = [xfer EXCEPT !.input = PkgOn(r.hdr, inp.fp)]
        /\ UNCHANGED <<issued, plain, written, nops>>

TransportNext ==
    \/ TransportEncode
    \/ \E plan \in DecodePlans(xfer.origin) : TransportDecode(plan)

SpecTransport == TransportInit /\ [][TransportNext]_vars

\* ---- the write_output_header hook on its own -----------------------------
\* The output streams the hook finds and the buffers it is handed
HookStreams ==
    {Bytes(FileOf(n)) : n \in 0..(2 * Block + 1)}
        \cup {HeaderImage(h) \o Bytes(FileOf(n)) :
                h \in {ZeroHeader, TailHeader}, n \in 0..1}

HookBuffers ==
    {Bytes([i \in 1..n |-> 3]) : n \in 0..(Block + 2)}
        \cup {HeaderImage(InitHeader(hk, SignatureKind(hk))) : hk \in HashKinds}

HookInit ==
    /\ fp \in HookStreams
    /\ pkg = [open |-> TRUE, header |-> ZeroHeader,
              header_location |-> BPAK_HEADER_POS_FIRST]
    /\ ret = Ret("BPAK_OK")
    /\ last = [op |-> "none", arg |-> <<>>, pkg |-> ClosedPkg, fp |-> <<>>,
               written |-> {}]
    /\ issued = {}
    /\ plain = FALSE
    /\ written = {}
    /\ nops = 0
    /\ xfer = NoTransfer

\* The decoder calls the hook with a buffer; fault: the fseek fails
WriteOutputHeader(buffer, fault) ==
    LET r == decode_write_output_header(fp, buffer, fault)
    IN  /\ Step
        /\ fp' = r.fp
        /\ ret' = [Ret(r.rc) EXCEPT !.size = r.n, !.reads = r.seeks]
        /\ last' = Call("write_output_header", <<buffer, fault>>)
        /\ UNCHANGED <<pkg, issued, plain, written, xfer>>

HookNext ==
    \E b \in HookBuffers, fault \in {"none", "seek"} : WriteOutputHeader(b, fault)

SpecHook == HookInit /\ [][HookNext]_vars

\* ---- the digest engine on its own -----------------------------------------
\* pkg_read_payload: exactly `length` bytes at `offset`, or an error
pkg_read_payload(f, offset, length) ==
    LET got == ReadAt(f, offset, length)
    IN  IF Len(got) # length
        THEN [rc |-> "BPAK_READ_ERROR", data |-> <<>>]
        ELSE [rc |-> "BPAK_OK", data |-> got]

\* The part loop of bpak_verify_compute_payload_hash from slot i on, the
\* next read being at pos: the cells fed, or the error of the first read
\* that failed.
RECURSIVE VerifyFeed(_, _, _, _)
VerifyFeed(parts, i, pos, f) ==
    IF i > N_PARTS THEN [rc |-> "BPAK_OK", data |-> <<>>]
    ELSE LET p == parts[i]
             n == bpak_part_size(p)
             got == pkg_read_payload(f, pos, n)
             rest == VerifyFeed(parts, i + 1, pos + n, f)
         IN  IF p.id = 0 THEN VerifyFeed(parts, i + 1, pos, f)
             ELSE IF BPAK_FLAG_EXCLUDE_FROM_HASH \in p.flags THEN rest
             ELSE IF got.rc # "BPAK_OK" THEN got
             ELSE IF rest.rc # "BPAK_OK" THEN rest
             ELSE [rc |-> "BPAK_OK", data |-> got.data \o rest.data]

\* bpak_verify_compute_payload_hash(header, read_payload, data_offset,
\* user, output, &size)
bpak_verify_compute_payload_hash(hdr, f, data_offset, size) ==
    LET kind == hdr.core.hash_kind
        fed == VerifyFeed(hdr.core.parts, 1, data_offset, f)
    IN  IF DigestLen(kind) = 0
        THEN [rc |-> "BPAK_UNSUPPORTED_HASH", size |-> size, out |-> FALSE,
              digest |-> ZeroDigest]
        ELSE IF size < DigestLen(kind)
        THEN [rc |-> "BPAK_BUFFER_TOO_SMALL", size |-> size, out |-> FALSE,
              digest |-> ZeroDigest]
        ELSE IF fed.rc # "BPAK_OK"
        THEN [rc |-> fed.rc, size |-> size, out |-> FALSE,
              digest |-> ZeroDigest]
        ELSE [rc |-> "BPAK_OK", size |-> DigestLen(kind), out |-> TRUE,
              digest |-> [kind |-> kind, data |-> fed.data]]

\* bpak_verify_compute_header_hash(header, output, &size): the signature
\* fields are saved, zeroed for the digest and restored.
bpak_verify_compute_header_hash(hdr, size) ==
    LET kind == hdr.core.hash_kind
    IN  IF DigestLen(kind) = 0
        THEN [rc |-> "BPAK_UNSUPPORTED_HASH", size |-> size, out |-> FALSE,
              digest |-> ZeroDigest]
        ELSE IF size < DigestLen(kind)
        THEN [rc |-> "BPAK_BUFFER_TOO_SMALL", size |-> size, out |-> FALSE,
              digest |-> ZeroDigest]
        ELSE [rc |-> "BPAK_OK", size |-> DigestLen(kind), out |-> TRUE,
              digest |-> HeaderDigest(hdr)]

\* The caller passing no output buffer to bpak_pkg_update_hash
NoOutput == 0

\* bpak_pkg_update_hash(pkg, output, size): the payload hash into the
\* header, then the header hash when an output buffer is given.
bpak_pkg_update_hash(p, f, size) ==
    LET r == bpak_verify_compute_payload_hash(p.header, f, sizeof_header,
                                              PAYLOAD_HASH_FIELD)
        h1 == [p.header EXCEPT !.core.payload_hash = r.digest]
        h == bpak_verify_compute_header_hash(h1, size)
    IN  IF r.rc # "BPAK_OK"
        THEN [rc |-> r.rc, size |-> size, out |-> FALSE,
              digest |-> ZeroDigest, header |-> p.header]
        ELSE IF size = NoOutput
        THEN [rc |-> "BPAK_OK", size |-> size, out |-> FALSE,
              digest |-> ZeroDigest, header |-> h1]
        ELSE [rc |-> h.rc, size |-> h.size, out |-> h.out,
              digest |-> h.digest, header |-> h1]

\* Caller buffer sizes: below, between and at the digest lengths
DigestSizes == {16, SHA256_LEN, SHA384_LEN, SHA512_LEN}

\* Part tables of the archives hashed: slot i carries id i; offsets are
\* relative to the start of the body.
DigestTables ==
    { <<[EmptyPart EXCEPT !.id = 1, !.size = 1, !.pad_bytes = Block - 1],
        EmptyPart>>,
      <<[EmptyPart EXCEPT !.id = 1, !.size = Block],
        [EmptyPart EXCEPT !.id = 2, !.size = 1, !.pad_bytes = Block - 1,
                          !.offset = Block]>>,
      <<[EmptyPart EXCEPT !.id = 1, !.size = Block,
                          !.flags = {BPAK_FLAG_EXCLUDE_FROM_HASH}],
        [EmptyPart EXCEPT !.id = 2, !.size = Block, !.offset = Block]>> }

\* A payload hash left in the header by an earlier state of the body
StaleHash(hk) == [kind |-> hk, data |-> Bytes(<<9>>)]

\* The package hashed: a hash kind (the three digests, or 0: an unknown
\* enum), a part table, a signature or none, a stale payload hash, the
\* header at the front or at the tail. In the body the bytes of part i
\* have value i and the pads are zero.
DigestInit ==
    /\ \E hk \in {0, BPAK_HASH_SHA256, BPAK_HASH_SHA384, BPAK_HASH_SHA512},
          t \in DigestTables,
          old \in {<<>>, [i \in 1..SigSlot |-> 5]},
          loc \in {BPAK_HEADER_POS_FIRST, BPAK_HEADER_POS_LAST} :
          LET base == IF loc = BPAK_HEADER_POS_FIRST THEN sizeof_header ELSE 0
              h == [InitHeader(hk, "prime256v1") EXCEPT
                      !.core.payload_hash = StaleHash(hk),
                      !.core.parts =
                         [i \in 1..N_PARTS |->
                             IF t[i].id = 0 THEN t[i]
                             ELSE [t[i] EXCEPT !.offset = @ + base]],
                      !.core.signature = SignatureSlot(old),
                      !.core.signature_sz = Len(old)]
              body(i) == IF t[i].id = 0 THEN <<>>
                         ELSE Bytes([k \in 1..t[i].size |-> i])
                                  \o Bytes(Zeros(t[i].pad_bytes))
          IN  /\ pkg = [open |-> TRUE, header |-> h, header_location |-> loc]
              /\ fp = IF loc = BPAK_HEADER_POS_FIRST
                      THEN HeaderImage(h) \o body(1) \o body(2)
                      ELSE body(1) \o body(2) \o HeaderImage(h)
    /\ ret = Ret("BPAK_OK")
    /\ last = [op |-> "none", arg |-> <<>>, pkg |-> ClosedPkg, fp |-> <<>>,
               written |-> {}]
    /\ issued = {}
    /\ plain = FALSE
    /\ written = {}
    /\ nops = 0
    /\ xfer = NoTransfer

ComputePayloadHash(size) ==
    LET r == bpak_pkg_compute_payload_hash(pkg, fp, size)
    IN  /\ pkg.open /\ Step
        /\ ret' = [Ret(r.rc) EXCEPT !.digest = r.digest, !.size = r.size,
                                    !.out = r.out]
        /\ last' = Call("compute_payload_hash", <<size>>)
        /\ UNCHANGED <<fp, pkg, issued, plain, written>>
        /\ UNCHANGED xfer

ComputeHeaderHashOf(size, update_payload_hash) ==
    LET h == bpak_pkg_compute_header_hash(pkg, fp, size, update_payload_hash)
    IN  /\ pkg.open /\ Step
        /\ pkg' = [pkg EXCEPT !.header = h.header]
        /\ ret' = [Ret(h.rc) EXCEPT !.digest = h.digest, !.size = h.size,
                                    !.out = h.out]
        /\ last' = Call("compute_header_hash", <<size, update_payload_hash>>)
        /\ UNCHANGED <<fp, issued, plain, written>>
        /\ UNCHANGED xfer

UpdateHash(size) ==
    LET h == bpak_pkg_update_hash(pkg, fp, size)
    IN  /\ pkg.open /\ Step
        /\ pkg' = [pkg EXCEPT !.header = h.header]
        /\ ret' = [Ret(h.rc) EXCEPT !.digest = h.digest, !.size = h.size,
                                    !.out = h.out]
        /\ last' = Call("update_hash", <<size>>)
        /\ UNCHANGED <<fp, issued, plain, written>>
        /\ UNCHANGED xfer

DigestNext ==
    \/ \E sz \in DigestSizes : ComputePayloadHash(sz)
    \/ \E sz \in DigestSizes, u \in BOOLEAN : ComputeHeaderHashOf(sz, u)
    \/ \E sz \in DigestSizes \cup {NoOutput} : UpdateHash(sz)

SpecDigest == DigestInit /\ [][DigestNext]_vars

\* ---- bpak_pkg_add_file byte by byte ---------------------------------------
\* Sizes are in bytes here: the part alignment, the capacity of the
\* pad_bytes field of a part slot (u8) and char chunk_buffer[512].
PART_ALIGN_BYTES == 4096
PAD_BYTES_FIELD == 256
sizeof_copy_buffer == 512

\* The width of the uint64_t byte counter, scaled to what the checker counts in
CounterMod == 1048576

\* The pad_bytes assignment of bpak_pkg_add_file for a file of st_size
\* bytes: the value the field holds afterwards
StoredPad(st_size) ==
    IF st_size % PART_ALIGN_BYTES # 0
    THEN (PART_ALIGN_BYTES - (st_size % PART_ALIGN_BYTES)) % PAD_BYTES_FIELD
    ELSE 0

\* while (bytes_to_write): `left` bytes remain in the input file and
\* `copied` have been written. An iteration that reads nothing leaves
\* bytes_to_write as it was, and so does every one after it: the loop does
\* not exit (returns = FALSE).
RECURSIVE CopyLoop(_, _, _)
CopyLoop(bytes_to_write, left, copied) ==
    IF bytes_to_write = 0 THEN [returns |-> TRUE, copied |-> copied]
    ELSE LET read_bytes == Min(sizeof_copy_buffer, left)
         IN  IF read_bytes = 0
             THEN [returns |-> FALSE, copied |-> copied]
             ELSE CopyLoop((bytes_to_write - read_bytes) % CounterMod,
                           left - read_bytes, copied + read_bytes)

\* bpak_pkg_add_file of a file stat reports st_size bytes for and fread
\* delivers `delivered` bytes of, into a fresh archive: the slot, whether
\* the call returns, and the body and pad bytes written.
AddFileBytes(st_size, delivered) ==
    LET slot == [EmptyPart EXCEPT !.id = 1, !.size = st_size,
                                  !.offset = PART_ALIGN_BYTES,
                                  !.pad_bytes = StoredPad(st_size)]
        c == CopyLoop(st_size, delivered, 0)
    IN  [returns |-> c.returns, slot |-> slot, body |-> c.copied,
         pad |-> IF c.returns THEN slot.pad_bytes ELSE 0]

\* File sizes around the chunk, the pad field and the alignment
StatSizes ==
    (0..40) \cup {255, 256, 511, 512, 513, 1024, 3840, 3841,
                  4095, 4096, 4097, 8193}

\* What the file delivers: its stat size, one byte less, one byte more,
\* a chunk more
Deliveries(st_size) ==
    {d \in {st_size, st_size - 1, st_size + 1, st_size + sizeof_copy_buffer} :
        d >= 0}

BytesInit ==
    /\ fp = <<>>
    /\ pkg = [open |-> TRUE,
              header |-> InitHeader(BPAK_HASH_SHA256, "prime256v1"),
              header_location |-> BPAK_HEADER_POS_FIRST]
    /\ ret = Ret("BPAK_OK")
    /\ last = [op |-> "none", arg |-> <<>>, pkg |-> ClosedPkg, fp |-> <<>>,
               written |-> {}]
    /\ issued = {}
    /\ plain = FALSE
    /\ written = {}
    /\ nops = 0
    /\ xfer = NoTransfer

\* One add_file call; the stream is followed through the writes issued
\* (ret.writes, written), not byte by byte.
AddFileSized(st_size, delivered) ==
    LET r == AddFileBytes(st_size, delivered)
        off == r.slot.offset
        w == (IF r.body > 0 THEN <<Write("body", off, r.body)>> ELSE <<>>)
             \o (IF r.pad > 0 THEN <<Write("pad", off + r.body, r.pad)>>
                 ELSE <<>>)
             \o (IF r.returns THEN <<Write("header", 0, PART_ALIGN_BYTES)>>
                 ELSE <<>>)
    IN  /\ last.op = "none"
        /\ nops' = nops + 1
        /\ pkg' = [pkg EXCEPT !.header.core.parts[1] = r.slot]
        /\ ret' = [Ret(IF r.returns THEN "BPAK_OK" ELSE "NO_RETURN")
                      EXCEPT !.writes = w]
        /\ written' = BodyRanges(w)
        /\ last' = Call("add_file_sized", <<st_size, delivered>>)
        /\ UNCHANGED <<fp, issued, plain>>
        /\ UNCHANGED xfer

BytesNext ==
    \E s \in StatSizes : \E d \in Deliveries(s) : AddFileSized(s, d)

SpecBytes == BytesInit /\ [][BytesNext]_vars

\* ---- claims -------------------------------------------------------------
SignedOk == last.op = "sign" /\ ret.rc = "BPAK_OK"

\* C1: after a successful sign of an archive built by create, add-meta
\* and set only, verify with the public key of the signing key succeeds.
C1_SignThenVerify ==
    (SignedOk /\ plain) =>
        VerifyArchive(fp, last.arg[1], issued) = "BPAK_OK"

\* A secp521r1/sha512 archive with a meta entry and key ids, just signed
C1_Witness ==
    /\ SignedOk /\ plain
    /\ pkg.header.core.hash_kind = BPAK_HASH_SHA512
    /\ pkg.header.core.meta[1].id = "bpak-package"
    /\ pkg.header.core.key_id # 0
    /\ pkg.header.core.signature_sz = Len(last.arg[2])
    /\ fp = HeaderImage(pkg.header)

\* The positions of the body bytes of the live parts included in the hash
HashedBody(hdr) ==
    UNION {{hdr.core.parts[i].offset + k : k \in 1..hdr.core.parts[i].size} :
             i \in {j \in 1..N_PARTS :
                      /\ hdr.core.parts[j].id # 0
                      /\ BPAK_FLAG_EXCLUDE_FROM_HASH
                            \notin hdr.core.parts[j].flags}}

\* The stream with the byte at cell i changed
Tamper(f, i) == [f EXCEPT ![i].b = IF @ = 0 THEN 1 ELSE 0]

\* C2: once an archive is signed and verifies, changing any body byte of
\* a part included in the hash makes verify fail on the payload hash.
C2_TamperDetected ==
    (SignedOk /\ VerifyArchive(fp, last.arg[1], issued) = "BPAK_OK") =>
        \A i \in HashedBody(pkg.header) \cap (1..Len(fp)) :
            VerifyArchive(Tamper(fp, i), last.arg[1], issued)
                = "PAYLOAD_HASH_MISMATCH"

\* The part bodies the payload hash is specified to cover: for each live
\* part not excluded, in slot order, the bytes [offset, offset + size).
RECURSIVE PartBodies(_, _, _)
PartBodies(parts, i, f) ==
    IF i > N_PARTS THEN <<>>
    ELSE IF parts[i].id = 0
            \/ BPAK_FLAG_EXCLUDE_FROM_HASH \in parts[i].flags
    THEN PartBodies(parts, i + 1, f)
    ELSE ReadAt(f, bpak_part_offset(parts[i]), bpak_part_size(parts[i]))
            \o PartBodies(parts, i + 1, f)

\* Every live part lies inside the stream
PartsInStream(hdr, f) ==
    \A i \in 1..N_PARTS :
        hdr.core.parts[i].id # 0 =>
            hdr.core.parts[i].offset + bpak_part_size(hdr.core.parts[i])
                <= Len(f)

\* C3: the bytes fed to the payload hash are exactly the part bodies at
\* their offsets, in slot order, without padding or excluded parts.
C3_PayloadCoverage ==
    (/\ pkg.open
     /\ pkg.header_location = BPAK_HEADER_POS_FIRST
     /\ PartsInStream(pkg.header, fp)
     /\ bpak_pkg_compute_payload_hash(pkg, fp, PAYLOAD_HASH_FIELD).rc
           = "BPAK_OK") =>
        bpak_pkg_compute_payload_hash(pkg, fp, PAYLOAD_HASH_FIELD).digest.data
            = PartBodies(pkg.header.core.parts, 1, fp)

\* C4: bpak_pkg_compute_header_hash leaves the header as it found it on
\* every return path.
C4_NoHiddenMutation ==
    last.op = "compute_header_hash" => pkg.header = last.pkg.header

\* Every byte the payload hash reads lies inside the stream, so that the
\* digest is a function of the archive
NoShortRead(p, f) ==
    LET data == bpak_pkg_compute_payload_hash(p, f, PAYLOAD_HASH_FIELD)
                    .digest.data
    IN  \A k \in 1..Len(data) : data[k] # StaleCell

\* The signatures a header may carry
SigVariants == {<<>>, <<7>>, <<9>>, [i \in 1..SigSlot |-> 5]}

\* The package with its signature fields replaced
WithSignature(p, sig) ==
    [p EXCEPT !.header.core.signature = SignatureSlot(sig),
              !.header.core.signature_sz = Len(sig)]

\* C5: two headers differing only in signature and signature_sz have the
\* same payload hash and the same header hash.
C5_SignatureIndependence ==
    (pkg.open /\ NoShortRead(pkg, fp)) =>
        \A sig \in SigVariants :
            /\ bpak_pkg_compute_payload_hash(WithSignature(pkg, sig), fp,
                                             PAYLOAD_HASH_FIELD)
                 = bpak_pkg_compute_payload_hash(pkg, fp, PAYLOAD_HASH_FIELD)
            /\ \A u \in BOOLEAN :
                 LET a == bpak_pkg_compute_header_hash(
                              WithSignature(pkg, sig), fp,
                              PAYLOAD_HASH_FIELD, u)
                     b == bpak_pkg_compute_header_hash(pkg, fp,
                              PAYLOAD_HASH_FIELD, u)
                 IN  a.rc = b.rc /\ a.digest = b.digest

\* A signed archive with a part is signed again under another key: the
\* signature changed, the header hash signed is the same.
C5_Witness ==
    /\ SignedOk
    /\ last.pkg.header.core.signature_sz > 0
    /\ last.pkg.header.core.signature # pkg.header.core.signature
    /\ LiveIds(pkg.header) # {}
    /\ NoShortRead(pkg, fp)
    /\ ret.digest = HeaderDigest(last.pkg.header)

\* The header in the first and in the last Block cells of a stream
FrontHeaderOf(f) == HeaderFromCells(ZeroHeader, ReadAt(f, 0, Block))

TailHeaderOf(f) == HeaderFromCells(ZeroHeader, ReadAt(f, Len(f) - Block, Block))

FrontValid(f) ==
    Len(f) >= Block /\ bpak_valid_header(FrontHeaderOf(f)) = "BPAK_OK"

TailValid(f) ==
    Len(f) >= Block /\ bpak_valid_header(TailHeaderOf(f)) = "BPAK_OK"

\* C6: open on a stream whose first Block cells are not a valid header and
\* whose last Block cells are loads the tail header, location TAIL.
C6_TailHeaderLoaded ==
    (last.op = "open" /\ ~FrontValid(last.fp) /\ TailValid(last.fp)) =>
        /\ ret.rc = "BPAK_OK"
        /\ pkg.header = TailHeaderOf(last.fp)
        /\ pkg.header_location = BPAK_HEADER_POS_LAST

\* C7: when both the first and the last Block cells are valid headers,
\* open loads the first, location FRONT, and never reads the tail.
C7_FrontPreferred ==
    (/\ last.op \in {"open", "open_io"}
     /\ FrontValid(last.fp) /\ TailValid(last.fp)) =>
        /\ ret.rc = "BPAK_OK"
        /\ pkg.header = FrontHeaderOf(last.fp)
        /\ pkg.header_location = BPAK_HEADER_POS_FIRST
        /\ ret.reads = <<0>>

\* A stream with two different valid headers, front and tail, was opened
C7_Witness ==
    /\ last.op = "open" /\ pkg.open
    /\ Len(last.fp) = 2 * Block
    /\ FrontValid(last.fp) /\ TailValid(last.fp)
    /\ FrontHeaderOf(last.fp) # TailHeaderOf(last.fp)

\* C8: open of an existing file with no valid header at either end fails
\* and hands out no package.
C8_InvalidHeaderRejected ==
    (/\ last.op \in {"open", "open_io"} /\ Len(last.fp) > 0
     /\ ~FrontValid(last.fp) /\ ~TailValid(last.fp)) =>
        ret.rc # "BPAK_OK" /\ ~pkg.open

\* C9: write_header on a TAIL package overwrites the last Block cells and
\* leaves the length alone; on a FRONT package it overwrites [0, Block).
C9_WriteHeaderInPlace ==
    (last.op \in {"write_header", "write_header_io"} /\ ret.rc = "BPAK_OK"
       /\ Len(last.fp) >= Block) =>
        IF pkg.header_location = BPAK_HEADER_POS_LAST
        THEN /\ Len(fp) = Len(last.fp)
             /\ ReadAt(fp, Len(fp) - Block, Block) = HeaderImage(pkg.header)
             /\ ReadAt(fp, 0, Len(fp) - Block)
                   = ReadAt(last.fp, 0, Len(fp) - Block)
        ELSE /\ Len(fp) = Len(last.fp)
             /\ ReadAt(fp, 0, Block) = HeaderImage(pkg.header)
             /\ ReadAt(fp, Block, Len(fp) - Block)
                   = ReadAt(last.fp, Block, Len(fp) - Block)

\* The operations that write part bodies or a signature
MutatingOps == {"add_file", "add_key", "add_file_with_merkle_tree", "sign"}

\* The body of part q was on the stream before write k of the call
BodyWrittenBefore(q, k) ==
    \/ q.size = 0
    \/ <<q.offset, q.size>> \in last.written
    \/ \E j \in 1..(k - 1) :
          /\ ret.writes[j].what \in {"body", "tree"}
          /\ ret.writes[j].pos = q.offset
          /\ ret.writes[j].len = q.size

\* C10: in a successful add_file, add_key, add_file_with_merkle_tree or
\* write_signature the last write is the header, and every header image
\* written describes only part bodies already written.
C10_HeaderLast ==
    (last.op \in MutatingOps /\ ret.rc = "BPAK_OK") =>
        /\ ret.writes # <<>>
        /\ ret.writes[Len(ret.writes)].what = "header"
        /\ \A k \in 1..Len(ret.writes) :
              ret.writes[k].what = "header" =>
                 \A i \in 1..N_PARTS :
                    ret.writes[k].parts[i].id # 0 =>
                       BodyWrittenBefore(ret.writes[k].parts[i], k)

\* C11: whenever add_file or add_key returns a non-OK result the in-memory
\* header is identical to its value before the call.
C11_FailFastHeaderUnchanged ==
    (last.op \in {"add_file", "add_key"} /\ ret.rc # "BPAK_OK") =>
        pkg.header = last.pkg.header

\* The live slots of a part table
LiveSlots(parts) == {i \in 1..N_PARTS : parts[i].id # 0}

\* The part geometry of the data model: aligned offsets, pad_bytes below
\* the alignment, padded sizes, strictly increasing offsets without
\* overlap, the first part directly after the header (or at 0 at TAIL)
Geometry(p) ==
    LET parts == p.header.core.parts
        live == LiveSlots(parts)
    IN  /\ \A i \in live :
              /\ parts[i].offset % BPAK_PART_ALIGN = 0
              /\ parts[i].pad_bytes < BPAK_PART_ALIGN
              /\ (parts[i].size + parts[i].pad_bytes) % BPAK_PART_ALIGN = 0
        /\ \A i, j \in live :
              i < j => /\ parts[i].offset < parts[j].offset
                       /\ parts[i].offset + parts[i].size + parts[i].pad_bytes
                             <= parts[j].offset
        /\ \A i \in live :
              (\A j \in live : i <= j) =>
                 parts[i].offset =
                    IF p.header_location = BPAK_HEADER_POS_FIRST
                    THEN sizeof_header ELSE 0

AddOps == {"add_file", "add_key", "add_file_with_merkle_tree"}

\* C12: a successful add_file, add_key or add_file_with_merkle_tree on a
\* package whose parts satisfy the part geometry leaves them satisfying it
\* (a created package has no parts).
C12_PartGeometry ==
    (last.op \in AddOps /\ ret.rc = "BPAK_OK" /\ Geometry(last.pkg)) =>
        Geometry(pkg)

\* The sum of f over the live slots of a part table
LiveSum(parts, f(_)) ==
    SumSeq([i \in 1..N_PARTS |-> IF parts[i].id # 0 THEN f(parts[i]) ELSE 0])

InstalledBytes(q) == q.size + q.pad_bytes

OnDiskBytes(q) ==
    IF BPAK_FLAG_TRANSPORT \in q.flags THEN q.transport_size ELSE q.size

RecordedLocation ==
    IF last.pkg.header_location = BPAK_HEADER_POS_FIRST THEN 0
    ELSE Len(last.fp) - sizeof_header

\* C15: after write_signature with a signature that fits the slot, the
\* slot holds the signature followed by zeros, signature_sz is its length,
\* no other header field changed and the header image is on the stream at
\* the recorded location.
C15_SignatureFraming ==
    (/\ last.op = "write_raw_signature" /\ ret.rc = "BPAK_OK"
     /\ Len(last.arg[1]) <= SigSlot) =>
        /\ \A i \in 1..SigSlot :
              pkg.header.core.signature[i] =
                 IF i <= Len(last.arg[1]) THEN last.arg[1][i] ELSE 0
        /\ pkg.header.core.signature_sz = Len(last.arg[1])
        /\ [pkg.header EXCEPT !.core.signature = Zeros(SigSlot),
                              !.core.signature_sz = 0]
              = [last.pkg.header EXCEPT !.core.signature = Zeros(SigSlot),
                                        !.core.signature_sz = 0]
        /\ ReadAt(fp, RecordedLocation, sizeof_header)
              = HeaderImage(pkg.header)
        /\ Len(fp) = Len(last.fp)

\* C16: after any write_signature call signature_sz is at most the slot
\* size and equals the number of signature bytes stored, and no field
\* after the signature slot was overwritten.
C16_SignatureSizeBound ==
    last.op = "write_raw_signature" =>
        /\ pkg.header.core.signature_sz <= SigSlot
        /\ pkg.header.core.signature_sz = Min(Len(last.arg[1]), SigSlot)
        /\ pkg.header.core.key_id = last.pkg.header.core.key_id
        /\ pkg.header.core.keystore_id = last.pkg.header.core.keystore_id

Decoded == last.op = "transport_decode"

\* The decoded archive's header: the leading cells of the output stream
DecodedHeader == HeaderFromCells(ZeroHeader, ReadAt(fp, 0, sizeof_header))

\* C17: decoding the transport encoding of an archive against the same
\* origin yields the archive byte for byte, header included: each decoded
\* part lies at its offset in the archive, with TRANSPORT cleared and
\* transport_size 0.  (Stated for a decode in which no call failed, the
\* input was whole and the decoder wrote the output header.)
C17_TransportRoundTrip ==
    (/\ Decoded /\ ret.rc = "BPAK_OK"
     /\ last.arg[1].cut = 0 /\ last.arg[1].hook
     /\ LiveIds(xfer.source.header) # {}) =>
        /\ fp = xfer.source.fp
        /\ \A i \in 1..N_PARTS :
              xfer.source.header.core.parts[i].id # 0 =>
                 /\ DecodedHeader.core.parts[i].offset
                       = xfer.source.header.core.parts[i].offset
                 /\ BPAK_FLAG_TRANSPORT
                       \notin DecodedHeader.core.parts[i].flags
                 /\ DecodedHeader.core.parts[i].transport_size = 0

\* The decoder steps and input reads of the trace, and the first failure
DecoderFns == {"start", "write_chunk", "finish"}

StepOrRead == DecoderFns \cup {"read"}

FailedAt ==
    {k \in 1..Len(ret.trace) :
        ret.trace[k].fn \in StepOrRead /\ ret.trace[k].rc # "BPAK_OK"}

HeaderWrites ==
    {k \in 1..Len(ret.trace) : ret.trace[k].fn = "write_output_header"}

\* The live slots whose finish succeeded before event k
FinishedBefore(k) ==
    {ret.trace[j].slot : j \in {x \in 1..(k - 1) :
        ret.trace[x].fn = "finish" /\ ret.trace[x].rc = "BPAK_OK"}}

\* C18: when a decoder step or an input read fails, transport_decode
\* returns that error, makes no further decoder call, and the output header
\* has not been written; the output header is written only after every
\* part has succeeded.
C18_DecodeFailure ==
    Decoded =>
        /\ \A k \in FailedAt :
              /\ ret.rc = ret.trace[k].rc
              /\ \A j \in (k + 1)..Len(ret.trace) :
                    ret.trace[j].fn \notin DecoderFns
              /\ HeaderWrites = {}
        /\ \A k \in HeaderWrites :
              \A i \in 1..N_PARTS :
                 last.pkg.header.core.parts[i].id # 0 =>
                    i \in FinishedBefore(k)

\* The decoder calls of the trace, in order
DecoderCalls == SelectSeq(ret.trace, LAMBDA ev : ev.fn \in DecoderFns)

\* The start calls among the first k decoder calls
StartsUpTo(k) == {j \in 1..k : DecoderCalls[j].fn = "start"}

\* The bytes handed to write_chunk for slot i
ChunkBytes(i) ==
    SumSeq([j \in 1..Len(DecoderCalls) |->
              IF DecoderCalls[j].fn = "write_chunk" /\ DecoderCalls[j].slot = i
              THEN DecoderCalls[j].len ELSE 0])

\* C19: the decoder calls are, for each live part of the input header in
\* table order, one start, then write_chunk calls of 1..4096 bytes that sum
\* to part_size, then one finish; the calls of different parts do not
\* interleave and no call is made for an empty slot.  A failing decode
\* makes a leading piece of that sequence.
C19_DecodeProtocol ==
    Decoded =>
        /\ \A k \in 1..Len(DecoderCalls) :
              LET c == DecoderCalls[k]
                  part == last.pkg.header.core.parts[c.slot]
              IN  /\ part.id # 0
                  /\ c.fn = "start" =>
                        /\ c.slot = Cardinality(StartsUpTo(k))
                        /\ k > 1 => /\ DecoderCalls[k - 1].fn = "finish"
                                    /\ DecoderCalls[k - 1].rc = "BPAK_OK"
                  /\ c.fn # "start" =>
                        /\ k > 1
                        /\ DecoderCalls[k - 1].fn \in {"start", "write_chunk"}
                        /\ DecoderCalls[k - 1].slot = c.slot
                        /\ DecoderCalls[k - 1].rc = "BPAK_OK"
                  /\ c.fn = "write_chunk" =>
                        c.len >= 1 /\ c.len <= sizeof_chunk_buffer
                  /\ c.fn = "finish" =>
                        ChunkBytes(c.slot) = bpak_part_size(part)
        /\ ret.rc = "BPAK_OK" =>
              \A i \in 1..N_PARTS :
                 last.pkg.header.core.parts[i].id # 0 =>
                    \E k \in 1..Len(DecoderCalls) :
                       /\ DecoderCalls[k].fn = "finish"
                       /\ DecoderCalls[k].slot = i

\* A successful decode of two parts, one fed in two chunks
C19_Witness ==
    /\ Decoded /\ ret.rc = "BPAK_OK"
    /\ \E k \in 1..Len(DecoderCalls) :
          DecoderCalls[k].fn = "finish" /\ DecoderCalls[k].slot = N_PARTS
    /\ \E i \in 1..N_PARTS :
          Cardinality({k \in 1..Len(DecoderCalls) :
              DecoderCalls[k].fn = "write_chunk"
              /\ DecoderCalls[k].slot = i}) >= 2

\* The accesses to the origin package in the trace
OriginAccess ==
    {k \in 1..Len(ret.trace) :
        ret.trace[k].fn \in {"null_deref", "get_part", "read_origin"}}

\* C20: transport_decode called without an origin package makes no access
\* to origin state and returns OK when no decoder step and no input read
\* fails.
C20_OriginOptional ==
    (Decoded /\ xfer.origin.null) =>
        /\ OriginAccess = {}
        /\ (/\ last.arg[1].fault = <<0, "none">>
            /\ FailedAt = {}) => ret.rc = "BPAK_OK"

\* C21: the write_output_header hook handed a length other than
\* sizeof(header) returns SIZE_ERROR without seeking or writing; handed
\* sizeof(header) bytes it writes them at offset 0 of the output.
C21_HeaderHookLength ==
    last.op = "write_output_header" =>
        /\ Len(last.arg[1]) # sizeof_header =>
              /\ ret.rc = "BPAK_SIZE_ERROR"
              /\ fp = last.fp
              /\ ret.reads = <<>>
        /\ (Len(last.arg[1]) = sizeof_header /\ last.arg[2] = "none") =>
              /\ ret.rc = "BPAK_OK"
              /\ ret.size = sizeof_header
              /\ ReadAt(fp, 0, sizeof_header) = last.arg[1]
              /\ \A i \in (sizeof_header + 1)..Len(last.fp) : fp[i] = last.fp[i]
              /\ Len(fp) = IF Len(last.fp) > sizeof_header
                           THEN Len(last.fp) ELSE sizeof_header

\* The hook refused a buffer longer than a header on a non-empty stream
C21_Witness ==
    /\ last.op = "write_output_header"
    /\ Len(last.arg[1]) > sizeof_header
    /\ ret.rc = "BPAK_SIZE_ERROR"
    /\ last.fp # <<>>

\* The releases of the decoder context in the trace
Releases == {k \in 1..Len(ret.trace) : ret.trace[k].fn = "decode_free"}

\* C22: on every return of transport_decode, the input seek failure and
\* the short read included, the decoder context has been released exactly
\* once.
C22_DecoderReleased ==
    (Decoded /\ ret.rc # "SIGSEGV") => Cardinality(Releases) = 1

MerkleOk == last.op = "add_file_with_merkle_tree" /\ ret.rc = "BPAK_OK"

\* The meta slots carrying id for the part ref
MetaSlots(hdr, id, ref) ==
    {i \in 1..N_META : /\ hdr.core.meta[i].id = id
                       /\ hdr.core.meta[i].part_id_ref = ref}

\* Where the body and padding of slot i end
PartEnd(hdr, i) ==
    hdr.core.parts[i].offset + hdr.core.parts[i].size
        + hdr.core.parts[i].pad_bytes

\* The header after a successful Merkle attachment of `name`: the file
\* part, the hash-tree part directly after the earlier parts without
\* padding, one salt and one root-hash entry keyed to the file part
MerkleShape(hdr, name) ==
    LET s == bpak_get_part(hdr, bpak_id(name))
        t == bpak_get_part(hdr, bpak_id(HashTreeName(name)))
        others == {i \in 1..N_PARTS : i # t /\ hdr.core.parts[i].id # 0}
    IN  /\ s # 0 /\ t # 0
        /\ hdr.core.parts[t].pad_bytes = 0
        /\ \A i \in others : PartEnd(hdr, i) <= hdr.core.parts[t].offset
        /\ \E i \in others : PartEnd(hdr, i) = hdr.core.parts[t].offset
        /\ Cardinality(MetaSlots(hdr, "merkle-salt", bpak_id(name))) = 1
        /\ Cardinality(MetaSlots(hdr, "merkle-root-hash", bpak_id(name))) = 1

\* C23: after add_file_with_merkle_tree returns OK the header holds the
\* file part, the hash-tree part directly after the earlier parts with
\* pad_bytes 0, one merkle-salt and one merkle-root-hash entry keyed to the
\* file part, and payload_hash is the hash of the part bodies on the
\* stream.
C23_MerkleAttachment ==
    MerkleOk =>
        /\ MerkleShape(pkg.header, last.arg[1])
        /\ pkg.header.core.payload_hash.data
              = PartBodies(pkg.header.core.parts, 1, fp)

\* add_file past its stat, add_key past the key parsing: bpak_add_part is
\* reached
AddReached ==
    \/ last.op = "add_file" /\ last.arg[4] # "stat"
    \/ last.op = "add_key" /\ last.arg[2] # <<>>

NothingDone ==
    /\ fp = last.fp
    /\ pkg.header = last.pkg.header
    /\ ret.writes = <<>>

\* C24: add_file and add_key with a name whose id a live slot carries
\* return EXISTS, with a full parts table NO_SPACE; in both cases nothing
\* is written to the stream and the header is unchanged.
C24_AddPartRefused ==
    AddReached =>
        /\ bpak_id(last.arg[1]) \in LiveIds(last.pkg.header) =>
              ret.rc = "BPAK_EXISTS" /\ NothingDone
        /\ (/\ bpak_id(last.arg[1]) \notin LiveIds(last.pkg.header)
            /\ FreeSlots(last.pkg.header) = {}) =>
              ret.rc = "BPAK_NO_SPACE" /\ NothingDone

\* add_file on a full table, after a part was written to the stream
C24_Witness ==
    /\ last.op = "add_file" /\ ret.rc = "BPAK_NO_SPACE"
    /\ last.written # {}

DigestCall == last.op \in {"compute_payload_hash", "compute_header_hash"}

\* The digest length the claim states for each recognized hash kind
StatedLen(kind) ==
    CASE kind = BPAK_HASH_SHA256 -> 32
      [] kind = BPAK_HASH_SHA384 -> 48
      [] kind = BPAK_HASH_SHA512 -> 64
      [] OTHER -> 0

\* The codes that report an unrecognized hash kind
UnsupportedHash == {"BPAK_UNSUPPORTED_HASH", "BPAK_NOT_SUPPORTED"}

\* C25: compute_payload_hash and compute_header_hash return
\* UNSUPPORTED_HASH when hash_kind is none of SHA256/SHA384/SHA512,
\* BUFFER_TOO_SMALL when the caller's output size is below the digest
\* length, and otherwise succeed and report exactly 32, 48 or 64.
C25_DigestErrors ==
    DigestCall =>
        LET kind == last.pkg.header.core.hash_kind
            size == last.arg[1]
        IN  /\ StatedLen(kind) = 0 => ret.rc \in UnsupportedHash
            /\ (StatedLen(kind) # 0 /\ size < StatedLen(kind)) =>
                  ret.rc = "BPAK_BUFFER_TOO_SMALL"
            /\ (StatedLen(kind) # 0 /\ size >= StatedLen(kind)) =>
                  ret.rc = "BPAK_OK" /\ ret.size = StatedLen(kind)

\* The last call computed a payload digest
PayloadHashed ==
    \/ last.op = "compute_payload_hash" /\ ret.rc = "BPAK_OK"
    \/ /\ last.op = "compute_header_hash" /\ last.arg[2]
       /\ ret.rc \in {"BPAK_OK", "BPAK_FAILED"}
    \/ /\ last.op = "update_hash"
       /\ ret.rc \in {"BPAK_OK", "BPAK_BUFFER_TOO_SMALL"}

\* The cells that digest was fed
PayloadFed ==
    IF last.op = "compute_payload_hash" THEN ret.digest.data
    ELSE pkg.header.core.payload_hash.data

\* Where the claim has the payload start for a header location
StatedStart(loc) == IF loc = BPAK_HEADER_POS_FIRST THEN sizeof_header ELSE 0

\* The slots hashed, and the bytes of the excluded parts stored before slot i
HashedSlots(hdr) ==
    {i \in 1..N_PARTS : /\ hdr.core.parts[i].id # 0
                        /\ BPAK_FLAG_EXCLUDE_FROM_HASH
                              \notin hdr.core.parts[i].flags}

SkippedBefore(hdr, i) ==
    SumSeq([k \in 1..(i - 1) |->
               IF k \in HashedSlots(hdr) THEN 0
               ELSE bpak_part_size(hdr.core.parts[k])])

\* C26: the payload hash starts at stream offset sizeof(header) when the
\* header is at the front and at offset 0 when it is at the tail: the
\* digest is fed the whole body of the first hashed part, found from that
\* start, and never a cell of the header.
C26_PayloadStart ==
    PayloadHashed =>
        LET hdr == last.pkg.header
            start == StatedStart(last.pkg.header_location)
            first == CHOOSE i \in HashedSlots(hdr) :
                        \A k \in HashedSlots(hdr) : i <= k
            n == bpak_part_size(hdr.core.parts[first])
        IN  /\ \A k \in 1..Len(PayloadFed) : PayloadFed[k].h = <<>>
            /\ HashedSlots(hdr) # {} =>
                  /\ Len(PayloadFed) >= n
                  /\ SubSeq(PayloadFed, 1, n) =
                        ReadAt(last.fp, start + SkippedBefore(hdr, first), n)
                  /\ Len(ReadAt(last.fp,
                                start + SkippedBefore(hdr, first), n)) = n

\* add_file was handed a file that delivers the size stat reported
SizedFile == last.op = "add_file_sized" /\ last.arg[2] = last.arg[1]

\* The bytes the last call wrote as `what`
BytesWritten(what) ==
    SumSeq([k \in 1..Len(ret.writes) |->
               IF ret.writes[k].what = what THEN ret.writes[k].len ELSE 0])

\* The pad a part of s bytes needs
NeededPad(s) ==
    (PART_ALIGN_BYTES - (s % PART_ALIGN_BYTES)) % PART_ALIGN_BYTES

\* C27: for every file size s the pad_bytes held in the part slot after
\* add_file is (alignment - s mod alignment) mod alignment, with the slot
\* field of the data model and alignment 4096, and the pad bytes written
\* to the stream are as many as the stored value.
C27_PadBytesStored ==
    SizedFile =>
        /\ pkg.header.core.parts[1].pad_bytes = NeededPad(last.arg[1])
        /\ BytesWritten("pad") = pkg.header.core.parts[1].pad_bytes

\* C30: the copy loop of add_file terminates for every input file and the
\* call writes exactly part.size body bytes followed by pad_bytes pad
\* bytes, also when the file delivers fewer or more bytes than stat
\* reported.
C30_CopyLoopTerminates ==
    last.op = "add_file_sized" =>
        /\ ret.rc # "NO_RETURN"
        /\ BytesWritten("body") = pkg.header.core.parts[1].size
        /\ BytesWritten("pad") = pkg.header.core.parts[1].pad_bytes

\* The last call was asked for the header hash with the payload hash
\* refreshed
RefreshCall ==
    \/ last.op = "compute_header_hash" /\ last.arg[2]
    \/ last.op = "update_hash" /\ last.arg[1] # NoOutput

\* The payload hash computation of the last call failed
PayloadFailed ==
    \/ StatedLen(last.pkg.header.core.hash_kind) = 0
    \/ ret.rc = "BPAK_READ_ERROR"

\* C28: update_hash and compute_header_hash(update_payload_hash = true)
\* store the fresh payload hash in the header and then compute the header
\* hash, so the digest returned covers the refreshed payload hash; when the
\* payload hash fails, no header hash is computed, the error is returned
\* and the signature fields are untouched.
C28_RefreshThenHeaderHash ==
    RefreshCall =>
        /\ ret.rc = "BPAK_OK" =>
              /\ pkg.header.core.payload_hash #
                    StaleHash(pkg.header.core.hash_kind)
              /\ ret.out
              /\ ret.digest.data = ZeroSignature(pkg.header)
              /\ ret.digest.data.core.payload_hash =
                    pkg.header.core.payload_hash
        /\ PayloadFailed =>
              /\ ret.rc # "BPAK_OK" /\ ~ret.out /\ ret.digest = ZeroDigest
              /\ pkg.header.core.signature = last.pkg.header.core.signature
              /\ pkg.header.core.signature_sz =
                    last.pkg.header.core.signature_sz
              /\ pkg.header = last.pkg.header

\* The payload hash was stale, the header signed, and the call succeeded
C28_Witness ==
    /\ RefreshCall /\ ret.rc = "BPAK_OK"
    /\ last.pkg.header.core.payload_hash =
          StaleHash(last.pkg.header.core.hash_kind)
    /\ last.pkg.header.core.signature_sz # 0
    /\ pkg.header.core.signature_sz # 0

\* Chunk k handed to write_chunk holds the input archive's bytes of its
\* part: those at part.offset + the bytes of the part fed before
FramedChunk(k) ==
    LET c == ret.fed[k]
        part == last.pkg.header.core.parts[c.slot]
    IN  /\ c.seen + Len(c.data) <= bpak_part_size(part)
        /\ c.data = ReadAt(xfer.input.fp, bpak_part_offset(part) + c.seen,
                           Len(c.data))

\* C29: the bytes passed to write_chunk for a part are exactly the input
\* archive's bytes [part.offset, part.offset + part_size(part)), for the
\* second and later parts too when an earlier part's on-disk byte count is
\* no multiple of the alignment.
C29_DecodeFraming ==
    Decoded => \A k \in 1..Len(ret.fed) : FramedChunk(k)

\* What a header holds of the Merkle attachment of part `name`
HasSalt(hdr, name) == MetaSlots(hdr, "merkle-salt", bpak_id(name)) # {}

HasRoot(hdr, name) == MetaSlots(hdr, "merkle-root-hash", bpak_id(name)) # {}

HasTree(hdr, name) == bpak_id(HashTreeName(name)) \in LiveIds(hdr)

\* add_file_with_merkle_tree added the file part of a name that had no
\* attachment, and a step after that failed
MerkleStepFailed ==
    /\ last.op = "add_file_with_merkle_tree"
    /\ bpak_id(last.arg[1]) \notin LiveIds(last.pkg.header)
    /\ bpak_id(last.arg[1]) \in LiveIds(pkg.header)
    /\ ~HasSalt(last.pkg.header, last.arg[1])
    /\ ~HasRoot(last.pkg.header, last.arg[1])
    /\ ~HasTree(last.pkg.header, last.arg[1])
    /\ (ret.rc # "BPAK_OK" \/ last.arg[5] # "none")

\* C31: when a step of the Merkle attachment fails,
\* add_file_with_merkle_tree returns non-OK and the header holds none of
\* the merkle-salt meta, the merkle-root-hash meta and the hash-tree part
\* of that part; in every reachable header the three are present together
\* or not at all.
C31_MerkleAllOrNothing ==
    /\ MerkleStepFailed =>
          /\ ret.rc # "BPAK_OK"
          /\ ~HasSalt(pkg.header, last.arg[1])
          /\ ~HasRoot(pkg.header, last.arg[1])
          /\ ~HasTree(pkg.header, last.arg[1])
    /\ \A n \in Names :
          /\ HasSalt(pkg.header, n) <=> HasRoot(pkg.header, n)
          /\ HasRoot(pkg.header, n) <=> HasTree(pkg.header, n)

====
